---------------------------- MODULE Spec2Model ----------------------------
(***************************************************************************)
(* State-machine model of the tool-calling orchestration engine of the     *)
(* Telegram agent:                                                         *)
(*   src/agent/llm.py          TelegramAgent (history, orchestration loop) *)
(*   src/agent/tool_memory.py  ToolSessionMemory                           *)
(*   src/bot/processor.py      process_message                             *)
(*   src/bot/telegram.py       send_conversational_response                *)
(*   src/main.py               the worker pool                             *)
(*                                                                         *)
(* One user is modelled: every piece of agent state is a dictionary keyed  *)
(* by user id, and users do not interact.                                  *)
(*                                                                         *)
(* Texts are sequences of tokens (words and CHART_FILE markers), so that   *)
(* find / slice / regex-findall / join become operations on sequences.     *)
(* Whitespace is not represented: str.strip() and str.split() are the      *)
(* passage from a text to its token sequence.                              *)
(***************************************************************************)
EXTENDS Naturals, Integers, Sequences, FiniteSets, TLC

(***************************************************************************)
(* Program constants                                                       *)
(***************************************************************************)
max_iterations == 15

HISTORY_LIMIT == 20

\* should_skip_tool: `if failure_count >= 3` (tool_memory.py:168)
SKIP_THRESHOLD == 3

\* get_context_summary: failed patterns listed ([:5]), successes listed ([-3:])
SUMMARY_MAX_FAILURES == 5

SUMMARY_MAX_SUCCESSES == 3

(***************************************************************************)
(* Bounds of the model                                                     *)
(***************************************************************************)
\* messages (runs) handled in one behaviour
MaxRuns == 1

\* Tool Call Records the session memory may hold (it is never emptied by the
\* program, so this caps the tool executions of a behaviour)
MaxCalls == 2

\* tool calls requested by one model reply
MaxCallsPerReply == 2

\* chart files generate_chart may create in one behaviour
MaxCharts == 1

\* worker threads that handle messages of the user at the same time
\* (ThreadPoolExecutor(max_workers=5) in src/main.py; two suffice for a race)
Workers == {1, 2}

(***************************************************************************)
(* Generic helpers                                                         *)
(***************************************************************************)
Range(s) == {s[i] : i \in 1..Len(s)}

\* s[-n:] of Python
LastN(s, n) == IF Len(s) <= n THEN s ELSE SubSeq(s, Len(s) - n + 1, Len(s))

\* s[:n] of Python
FirstN(s, n) == IF Len(s) <= n THEN s ELSE SubSeq(s, 1, n)

\* str.find: index of the first occurrence of token t (0 instead of -1)
Find(s, t) == IF \E i \in 1..Len(s) : s[i] = t
              THEN CHOOSE i \in 1..Len(s) : s[i] = t /\ \A j \in 1..(i-1) : s[j] # t
              ELSE 0

\* order-preserving de-duplication ([x for x in l if not (x in seen or seen.add(x))])
RECURSIVE Dedup(_)
Dedup(s) ==
  IF s = <<>> THEN <<>>
  ELSE LET d == Dedup(FirstN(s, Len(s) - 1))
       IN IF s[Len(s)] \in Range(d) THEN d ELSE Append(d, s[Len(s)])

(***************************************************************************)
(* Text tokens                                                             *)
(***************************************************************************)
Paths == 1..(MaxCharts + 1)

\* an ordinary word of a text
W(s) == [k |-> "w", s |-> s, p |-> 0]

\* the marker token CHART_FILE:<path p>
ChartMarker(p) == [k |-> "chart", s |-> "", p |-> p]

IsChartMarker(t) == t.k = "chart"

\* re.findall(r'CHART_FILE:([^\s]+)', text): the paths of the markers, in order
RECURSIVE FindChartPaths(_)
FindChartPaths(text) ==
  IF text = <<>> THEN <<>>
  ELSE IF IsChartMarker(Head(text))
       THEN <<Head(text).p>> \o FindChartPaths(Tail(text))
       ELSE FindChartPaths(Tail(text))

\* re.sub(r'CHART_FILE:[^\s]+\s*', '', text).strip()
RECURSIVE StripChartMarkers(_)
StripChartMarkers(text) ==
  IF text = <<>> THEN <<>>
  ELSE IF IsChartMarker(Head(text)) THEN StripChartMarkers(Tail(text))
       ELSE <<Head(text)>> \o StripChartMarkers(Tail(text))

THINK_OPEN == W("<thinking>")

THINK_CLOSE == W("</thinking>")

CHART_SENTENCE == <<W("Here's the chart you requested.")>>

APOLOGY == <<W("I apologize, but I couldn't generate a response. Please try again.")>>


(***************************************************************************)
(* Tool calls and tool results                                             *)
(*                                                                         *)
(* The argument mapping of a call is a record: q_kind says what            *)
(* args.get("query", args.get("search_term", "")) yields ("str": the text  *)
(* `query`; "missing": the default ""; "nonstr": a value that is not a     *)
(* string, e.g. null or a number), `other` stands for the remaining        *)
(* arguments.                                                              *)
(***************************************************************************)
StrArgs(q) == [q_kind |-> "str", query |-> q, other |-> 0]

MissingArgs == [q_kind |-> "missing", query |-> <<>>, other |-> 0]

NonStrArgs == [q_kind |-> "nonstr", query |-> <<>>, other |-> 0]

Call(tool, args) == [name |-> tool, args |-> args]

\* a tool result: str(tool_result) as the text that identifies it plus the
\* CHART_FILE markers it embeds
Result(text, charts) == [text |-> text, charts |-> charts]

R_FOUND == "Found 2 items"

R_NO_ITEMS == "<cross mark> No items found matching '<query>' in your catalogues."

R_NO_MAIL == "No messages found matching your query."

R_GMAIL_ERROR == "Error searching Gmail: quota exceeded"

R_TOOL_NOT_FOUND == "Tool not found"

R_RAISED == "Error executing tool: boom"

R_DRIVE_ERROR == "Error listing Drive files: 503 Service Unavailable"

R_CHART == "CHART_FILE:<path>"

\* which of the negative lexical markers of llm.py:322-325 occur in
\* str(tool_result).lower()
NegativeMarkersIn(text) ==
  CASE text = R_NO_ITEMS       -> {"<cross mark>", "no items found"}
    [] text = R_TOOL_NOT_FOUND -> {"not found"}
    [] text = R_RAISED         -> {"error"}
    [] text = R_GMAIL_ERROR    -> {"error"}
    [] text = R_DRIVE_ERROR    -> {"error", "503"}
    [] OTHER                   -> {}

\* llm.py:321-325
ToolSuccess(result) == NegativeMarkersIn(result.text) = {}

(***************************************************************************)
(* ToolSessionMemory (src/agent/tool_memory.py)                            *)
(***************************************************************************)
PATTERN_KEY_SEARCH_TOOLS == {"search_catalogue", "search_drive_files", "search_gmail"}

VARIATION_SEARCH_TOOLS == {"search_catalogue", "search_drive_files"}

stopwords == {"the", "a", "an", "for", "in", "on", "with"}

\* str.lower() on one word
Lower(w) ==
  CASE w = "Blue"   -> "blue"
    [] w = "WIDGET" -> "widget"
    [] w = "The"    -> "the"
    [] w = "My"     -> "my"
    [] w = "Alex"   -> "alex"
    [] w = "I"      -> "i"
    [] w = "Acme"   -> "acme"
    [] w = "Hello"  -> "hello"
    [] w = "Al"     -> "al"
    [] OTHER        -> w

LowerText(q) == [i \in 1..Len(q) |-> Lower(q[i])]

\* the query read by _get_pattern_key / has_similar_failure raises
\* AttributeError when the value has no .lower()
QueryRaises(tool_name, args) ==
  tool_name \in PATTERN_KEY_SEARCH_TOOLS /\ args.q_kind = "nonstr"

NoArgs == [q_kind |-> "none", query |-> <<>>, other |-> 0]

\* _get_pattern_key: "<tool>:<query>" for the search tools, "<tool>:<json of
\* the args, keys sorted>" for the others.  The key is kept as the pair of
\* its two parts; json.dumps(sort_keys=True) is one-to-one on mappings.
\* Only used where QueryRaises is false.
_get_pattern_key(tool_name, args) ==
  IF tool_name \in PATTERN_KEY_SEARCH_TOOLS
  THEN [tool |-> tool_name, query |-> LowerText(args.query), json |-> NoArgs]
  ELSE [tool |-> tool_name, query |-> <<>>, json |-> args]

\* _extract_failure_reason
_extract_failure_reason(result) ==
  CASE result.text = R_NO_ITEMS       -> "No items found in catalogues"
    [] result.text = R_TOOL_NOT_FOUND -> "Resource not found"
    [] result.text = R_DRIVE_ERROR    -> "API temporarily unavailable"
    [] result.text = ""               -> "Unknown error"
    [] OTHER                          -> result.text

\* _is_search_variation that compares the queries as strings
_is_search_variation_exact(query1, query2) == LowerText(query1) = LowerText(query2)

\* _is_search_variation
_is_search_variation(query1, query2) ==
  LET words1 == Range(LowerText(query1)) \ stopwords
      words2 == Range(LowerText(query2)) \ stopwords
      common == words1 \cap words2
      total  == words1 \cup words2
  IN /\ words1 # {} /\ words2 # {}
     /\ \/ words1 \subseteq words2
        \/ words2 \subseteq words1
        \/ (total # {} /\ 2 * Cardinality(common) > Cardinality(total))

\* dict lookup / store on the insertion-ordered failed_patterns
PatternKeys(fp) == {fp[i].key : i \in 1..Len(fp)}

PatternReason(fp, key) == fp[CHOOSE i \in 1..Len(fp) : fp[i].key = key].reason

PatternStore(fp, key, reason) ==
  IF key \in PatternKeys(fp)
  THEN [i \in 1..Len(fp) |-> IF fp[i].key = key THEN [key |-> key, reason |-> reason]
                                                  ELSE fp[i]]
  ELSE Append(fp, [key |-> key, reason |-> reason])

NoFailure == [found |-> FALSE, similar |-> FALSE, failed_query |-> <<>>, reason |-> ""]

\* has_similar_failure: the reason, or NoFailure for None.  `similar` marks the
\* text "Similar search already failed: '<failed_query>' -> <reason>".
has_similar_failure(fp, tool_name, args) ==
  LET pattern_key == _get_pattern_key(tool_name, args)
      query == LowerText(args.query)
      hits == {i \in 1..Len(fp) : /\ fp[i].key.tool = tool_name
                                  /\ _is_search_variation(query, fp[i].key.query)}
      first == CHOOSE i \in hits : \A j \in hits : i <= j
  IN IF pattern_key \in PatternKeys(fp)
     THEN [found |-> TRUE, similar |-> FALSE, failed_query |-> <<>>,
           reason |-> PatternReason(fp, pattern_key)]
     ELSE IF tool_name \in VARIATION_SEARCH_TOOLS /\ hits # {}
          THEN [found |-> TRUE, similar |-> TRUE,
                failed_query |-> fp[first].key.query, reason |-> fp[first].reason]
          ELSE NoFailure

\* `if failure_reason:` (llm.py:306): None and "" are falsy
Truthy(failure_reason) ==
  failure_reason.found /\ (failure_reason.similar \/ failure_reason.reason # "")

\* a Tool Call Record (the result text and the timestamp have no reader)
ToolCall(tool_name, args, success) ==
  [tool_name |-> tool_name, args |-> args, success |-> success]

\* record_call that drops the pattern of a call that now succeeded
record_call_evicts(cs, fp, tool_name, args, result, success) ==
  LET key  == _get_pattern_key(tool_name, args)
      Keep(e) == e.key # key
  IN [calls |-> Append(cs, ToolCall(tool_name, args, success)),
      failed_patterns |->
        IF QueryRaises(tool_name, args) THEN fp
        ELSE IF success THEN SelectSeq(fp, Keep)
        ELSE PatternStore(fp, key, _extract_failure_reason(result))]

\* record_call that appends the record and leaves the failure patterns alone
record_call_forgets(cs, fp, tool_name, args, result, success) ==
  [calls |-> Append(cs, ToolCall(tool_name, args, success)), failed_patterns |-> fp]

\* record_call: the new (calls, failed_patterns).  The record is appended
\* before _get_pattern_key is called, so when that raises (QueryRaises) the
\* record stays and no pattern is stored.
record_call(cs, fp, tool_name, args, result, success) ==
  [calls |-> Append(cs, ToolCall(tool_name, args, success)),
   failed_patterns |->
     IF ~success /\ ~QueryRaises(tool_name, args)
     THEN PatternStore(fp, _get_pattern_key(tool_name, args), _extract_failure_reason(result))
     ELSE fp]

\* get_failure_count
get_failure_count(cs, tool_name) ==
  Cardinality({i \in 1..Len(cs) : cs[i].tool_name = tool_name /\ ~cs[i].success})

\* the reason "" of should_skip_tool
NoReason == [tool |-> "", times |-> 0]

\* should_skip_tool with > for >=
should_skip_tool_late(cs, tool_name) ==
  LET failure_count == get_failure_count(cs, tool_name)
  IN IF failure_count > SKIP_THRESHOLD
     THEN [skip |-> TRUE, reason |-> [tool |-> tool_name, times |-> failure_count]]
     ELSE [skip |-> FALSE, reason |-> NoReason]

\* should_skip_tool: (should_skip, reason); the reason
\* "Tool '<tool>' has failed <n> times this session" is kept as (tool, n)
should_skip_tool(cs, tool_name) ==
  LET failure_count == get_failure_count(cs, tool_name)
  IN IF failure_count >= SKIP_THRESHOLD
     THEN [skip |-> TRUE, reason |-> [tool |-> tool_name, times |-> failure_count]]
     ELSE [skip |-> FALSE, reason |-> NoReason]

\* one line of the summary
SummaryLine(kind, tool, text) == [kind |-> kind, tool |-> tool, text |-> text]

\* get_context_summary that lists the first successes
get_context_summary_oldest(cs, fp) ==
  LET Succeeded(c) == c.success
      successes == SelectSeq(cs, Succeeded)
      recent    == FirstN(successes, SUMMARY_MAX_SUCCESSES)
      listed    == FirstN(fp, SUMMARY_MAX_FAILURES)
      failed_part ==
        IF fp # <<>>
        THEN <<SummaryLine("header", "", "FAILED OPERATIONS (do NOT retry):")>>
             \o [i \in 1..Len(listed) |->
                   SummaryLine("failed", listed[i].key.tool, listed[i].reason)]
        ELSE <<>>
      success_part ==
        IF successes # <<>>
        THEN <<SummaryLine("header", "", "SUCCESSFUL OPERATIONS:")>>
             \o [i \in 1..Len(recent) |-> SummaryLine("worked", recent[i].tool_name, "worked")]
        ELSE <<>>
  IN IF cs = <<>> THEN <<>> ELSE failed_part \o success_part

\* get_context_summary: the lines joined by "\n" (<<>> is the empty string)
get_context_summary(cs, fp) ==
  LET Succeeded(c) == c.success
      successes == SelectSeq(cs, Succeeded)
      recent    == LastN(successes, SUMMARY_MAX_SUCCESSES)
      listed    == FirstN(fp, SUMMARY_MAX_FAILURES)
      failed_part ==
        IF fp # <<>>
        THEN <<SummaryLine("header", "", "FAILED OPERATIONS (do NOT retry):")>>
             \o [i \in 1..Len(listed) |->
                   SummaryLine("failed", listed[i].key.tool, listed[i].reason)]
        ELSE <<>>
      success_part ==
        IF successes # <<>>
        THEN <<SummaryLine("header", "", "SUCCESSFUL OPERATIONS:")>>
             \o [i \in 1..Len(recent) |-> SummaryLine("worked", recent[i].tool_name, "worked")]
        ELSE <<>>
  IN IF cs = <<>> THEN <<>> ELSE failed_part \o success_part

\* clear that empties the records only
clear_calls_only(cs, fp) == [calls |-> <<>>, failed_patterns |-> fp]

\* clear: the new (calls, failed_patterns)
clear(cs, fp) == [calls |-> <<>>, failed_patterns |-> <<>>]

(***************************************************************************)
(* Inputs of the orchestration loop: what the model may reply and what the *)
(* tools may return                                                        *)
(***************************************************************************)
\* the tools bound for the user (llm.py:167-172)
BoundTools == {"search_catalogue", "search_gmail", "generate_chart"}

ChartArgs == [q_kind |-> "missing", query |-> <<>>, other |-> 1]

\* the tool calls a model reply may request
LoopCalls ==
  { Call("search_catalogue", StrArgs(<<"blue", "widget">>)),
    Call("search_catalogue", StrArgs(<<"widget", "blue">>)),
    Call("search_catalogue", StrArgs(<<"the", "a">>)),
    Call("search_catalogue", StrArgs(<<"a", "the">>)),
    Call("search_catalogue", NonStrArgs),
    Call("search_gmail", StrArgs(<<"invoice">>)),
    Call("generate_chart", ChartArgs),
    Call("no_such_tool", MissingArgs) }

\* the operations a caller may apply to a ToolSessionMemory directly
MemCalls ==
  { Call("list_drive_files", MissingArgs),
    Call("search_catalogue", StrArgs(<<"blue", "widget">>)),
    Call("search_catalogue", NonStrArgs),
    Call("search_gmail", StrArgs(<<"invoice">>)) }

MemResults == { Result(R_FOUND, <<>>), Result(R_NO_ITEMS, <<>>), Result(R_DRIVE_ERROR, <<>>) }

\* the tool names that occur
ToolNames == {c.name : c \in LoopCalls \cup MemCalls}

\* what tool.invoke(args) may do: return a text, or raise
Returned(result) == [raised |-> FALSE, result |-> result]

Raised == [raised |-> TRUE, result |-> Result(R_RAISED, <<>>)]

ToolOutcomes(call, fresh_path) ==
  CASE call.name = "search_catalogue" ->
         {Returned(Result(R_NO_ITEMS, <<>>)), Returned(Result(R_FOUND, <<>>))}
    [] call.name = "search_gmail" ->
         {Returned(Result(R_GMAIL_ERROR, <<>>)), Returned(Result(R_NO_MAIL, <<>>))}
    [] call.name = "generate_chart" ->
         {Returned(Result(R_CHART, <<fresh_path>>)), Raised}
    [] OTHER -> {}

\* the text a reply that requests tool calls carries beside them
TOOL_REPLY_TEXT == <<W("Let me look that up.")>>

\* the texts of a reply without tool calls; `created` are the chart paths the
\* model has seen in tool results
FinalTexts(created) ==
  { <<>>,
    <<W("Done.")>>,
    <<THINK_OPEN, W("plan"), THINK_CLOSE, W("Done.")>>,
    <<THINK_OPEN, W("plan"), THINK_CLOSE>> }
  \cup { <<ChartMarker(q), W("Here it is.")>> : q \in created }

ERROR_TEXT == <<W("Error: <exception>")>>

(***************************************************************************)
(* Inbound messages and trigger detection (src/agent/persistent_memory.py) *)
(*                                                                         *)
(* A message is the sequence of its words and of the marks "," and ".";    *)
(* a mark follows its word directly, words are one space apart and the     *)
(* message has no surrounding whitespace.  The patterns of                 *)
(* detect_memory_triggers are matched on whole tokens.                     *)
(***************************************************************************)
\* one whitespace character more than the single space between two words
PAD == " "

IsMark(t) == t \in {",", "."}

IsWord(t) == ~IsMark(t) /\ t # PAD

\* len() of one token
WordLen(w) ==
  CASE w \in {"i", "I"} -> 1
    [] w \in {"al", "at", "go", "hi", "is", "me", "my", "to", "Al", "My"} -> 2
    [] w \in {"and", "our", "the"} -> 3
    [] w \in {"acme", "alex", "call", "list", "name", "that", "work", "Alex", "Acme"} -> 4
    [] w \in {"hello", "sales", "three", "Hello"} -> 5
    [] w \in {"folder", "please", "quotes", "report", "thanks"} -> 6
    [] w \in {"largest"} -> 7
    [] w \in {"remember"} -> 8
    [] w \in {"customers", "quarterly", "summarise"} -> 9
    [] OTHER -> 1

\* len() of the text of the tokens
RECURSIVE TextLen(_)
TextLen(text) ==
  IF text = <<>> THEN 0
  ELSE LET rest == FirstN(text, Len(text) - 1)
           last == text[Len(text)]
           spaced == rest # <<>> /\ IsWord(last) /\ rest[Len(rest)] # PAD
       IN TextLen(rest) + WordLen(last) + (IF spaced THEN 1 ELSE 0)

\* str.strip()
RECURSIVE Strip(_)
Strip(text) ==
  IF text = <<>> THEN text
  ELSE IF text[1] = PAD THEN Strip(Tail(text))
  ELSE IF text[Len(text)] = PAD THEN Strip(FirstN(text, Len(text) - 1))
  ELSE text

\* str.title() on one token
Title(w) ==
  CASE w = "acme" -> "Acme"
    [] w = "al" -> "Al"
    [] w = "alex" -> "Alex"
    [] w = "and" -> "And"
    [] w = "at" -> "At"
    [] w = "customers" -> "Customers"
    [] w = "folder" -> "Folder"
    [] w = "go" -> "Go"
    [] w = "hello" -> "Hello"
    [] w = "hi" -> "Hi"
    [] w = "i" -> "I"
    [] w = "is" -> "Is"
    [] w = "largest" -> "Largest"
    [] w = "list" -> "List"
    [] w = "my" -> "My"
    [] w = "name" -> "Name"
    [] w = "our" -> "Our"
    [] w = "please" -> "Please"
    [] w = "quarterly" -> "Quarterly"
    [] w = "quotes" -> "Quotes"
    [] w = "remember" -> "Remember"
    [] w = "report" -> "Report"
    [] w = "sales" -> "Sales"
    [] w = "summarise" -> "Summarise"
    [] w = "thanks" -> "Thanks"
    [] w = "that" -> "That"
    [] w = "the" -> "The"
    [] w = "three" -> "Three"
    [] w = "to" -> "To"
    [] w = "work" -> "Work"
    [] OTHER -> w

TitleText(q) == [i \in 1..Len(q) |-> Title(q[i])]

M_HI == <<"hi">>

M_HELLO == <<"Hello">>

M_NAME_COMPANY == <<"My", "name", "is", "Alex", "and", "I", "work", "at", "Acme">>

M_NAME == <<"My", "name", "is", "Alex", ".">>

M_REMEMBER == <<"remember", "that", "quotes", "go", "to", "the", "sales", "folder">>

\* 10 characters
M_CALL_ME == <<"call", "me", "Al">>

\* 6 characters and 5 of trailing whitespace
M_PADDED == <<"thanks", PAD, PAD, PAD, PAD, PAD>>

\* 80 characters, no greeting, no trigger
M_LONG ==
  <<"please", "summarise", "the", "quarterly", "sales", "report", "and", "list", "our",
    "three", "largest", "customers">>

\* the least element of a non-empty set of positions
First(S) == CHOOSE i \in S : \A j \in S : i <= j

PhraseAt(s, i, phrase) ==
  /\ i + Len(phrase) - 1 <= Len(s)
  /\ SubSeq(s, i, i + Len(phrase) - 1) = phrase

WordAt(s, i) == i <= Len(s) /\ IsWord(s[i])

\* ([^,.]+) from position j: the tokens up to the next mark or the end
RunFrom(s, j) ==
  LET stops == {e \in j..Len(s) : IsMark(s[e])}
  IN IF stops = {} THEN SubSeq(s, j, Len(s)) ELSE SubSeq(s, j, First(stops) - 1)

\* (.{lo,hi}) from position j: the rest of the message, at least lo characters,
\* cut after the last whole token within hi characters; <<>> for no match
RestFrom(s, j, lo, hi) ==
  LET rest == SubSeq(s, j, Len(s))
      fits == {n \in 0..Len(rest) : TextLen(FirstN(rest, n)) <= hi}
      most == CHOOSE n \in fits : \A k \in fits : k <= n
  IN IF j > Len(s) \/ TextLen(rest) < lo THEN <<>> ELSE FirstN(rest, most)

\* a detected (category, key, value)
Trigger(category, key, value) == [category |-> category, key |-> key, value |-> value]

\* name_patterns (persistent_memory.py:170-180): the capture of the first
\* pattern that matches, <<>> when none does
NameCapture(s) ==
  LET \* r"my name is (\w+(?:\s+\w+)?)": the optional second word is taken when there is one
      hits1 == {i \in 1..Len(s) : PhraseAt(s, i, <<"my", "name", "is">>) /\ WordAt(s, i + 3)}
      i1    == First(hits1)
      \* r"i['`]m (\w+)(?:\s|,|\.)"
      hits2 == {i \in 1..Len(s) : s[i] = "i'm" /\ WordAt(s, i + 1) /\ i + 2 <= Len(s)}
      \* r"call me (\w+)"
      hits3 == {i \in 1..Len(s) : PhraseAt(s, i, <<"call", "me">>) /\ WordAt(s, i + 2)}
  IN IF hits1 # {}
     THEN (IF WordAt(s, i1 + 4) THEN <<s[i1 + 3], s[i1 + 4]>> ELSE <<s[i1 + 3]>>)
     ELSE IF hits2 # {} THEN <<s[First(hits2) + 1]>>
     ELSE IF hits3 # {} THEN <<s[First(hits3) + 2]>>
     ELSE <<>>

\* company_patterns (persistent_memory.py:183-194): the first capture longer
\* than 2 characters, <<>> when there is none
CompanyCapture(s) ==
  LET \* r"i work (?:at|for) ([^,.]+)"
      hits1 == {i \in 1..Len(s) : /\ PhraseAt(s, i, <<"i", "work">>)
                                  /\ i + 2 <= Len(s) /\ s[i + 2] \in {"at", "for"}
                                  /\ WordAt(s, i + 3)}
      cap1  == IF hits1 = {} THEN <<>> ELSE Strip(RunFrom(s, First(hits1) + 3))
      \* r"i['`]m (?:at|from|with) ([^,.]+?)(?:\s+company|\s+inc|\s+ltd)?[,.]"
      hits2 == {i \in 1..Len(s) : /\ s[i] = "i'm"
                                  /\ i + 1 <= Len(s) /\ s[i + 1] \in {"at", "from", "with"}
                                  /\ WordAt(s, i + 2)
                                  /\ i + 2 + Len(RunFrom(s, i + 2)) <= Len(s)}
      run2  == IF hits2 = {} THEN <<>> ELSE RunFrom(s, First(hits2) + 2)
      cap2  == Strip(IF Len(run2) > 1 /\ run2[Len(run2)] \in {"company", "inc", "ltd"}
                     THEN FirstN(run2, Len(run2) - 1) ELSE run2)
      \* r"my company is ([^,.]+)"
      hits3 == {i \in 1..Len(s) : PhraseAt(s, i, <<"my", "company", "is">>) /\ WordAt(s, i + 3)}
      cap3  == IF hits3 = {} THEN <<>> ELSE Strip(RunFrom(s, First(hits3) + 3))
  IN IF TextLen(cap1) > 2 THEN cap1
     ELSE IF TextLen(cap2) > 2 THEN cap2
     ELSE IF TextLen(cap3) > 2 THEN cap3
     ELSE <<>>

EmailWords == {"alex@acme.com"}

\* r"my email is (<address>)" on the message as written (persistent_memory.py:197)
EmailCapture(words) ==
  LET hits == {i \in 1..Len(words) : /\ PhraseAt(words, i, <<"my", "email", "is">>)
                                     /\ i + 3 <= Len(words) /\ words[i + 3] \in EmailWords}
  IN IF hits = {} THEN <<>> ELSE <<words[First(hits) + 3]>>

\* r"<lead> (?:<opt> )?(.{lo,hi})": the capture at the first position where
\* the pattern matches, <<>> when it matches nowhere
LeadCapture(s, lead, opts, lo, hi) ==
  LET After(i) == i + Len(lead)
      WithOpt(i) == IF After(i) <= Len(s) /\ s[After(i)] \in opts /\ WordAt(s, After(i) + 1)
                    THEN RestFrom(s, After(i) + 1, lo, hi) ELSE <<>>
      Capture(i) == Strip(IF WithOpt(i) # <<>> THEN WithOpt(i)
                          ELSE RestFrom(s, After(i), lo, hi))
      hits == {i \in 1..Len(s) : PhraseAt(s, i, lead) /\ WordAt(s, After(i)) /\ Capture(i) # <<>>}
  IN IF hits = {} THEN <<>> ELSE Capture(First(hits))

\* remember_patterns (persistent_memory.py:202-214)
FactCapture(s) ==
  LET c1 == LeadCapture(s, <<"remember">>, {"that"}, 10, 100)
      c2 == LeadCapture(s, <<"don't", "forget">>, {"that"}, 10, 100)
      c3 == LeadCapture(s, <<"keep", "in", "mind">>, {"that"}, 10, 100)
      c4 == LeadCapture(s, <<"note">>, {"that"}, 10, 100)
  IN IF c1 # <<>> THEN c1 ELSE IF c2 # <<>> THEN c2 ELSE IF c3 # <<>> THEN c3 ELSE c4

\* "_".join(fact.split()[:4])[:30], cut after the last whole word within 30
\* characters
FactKey(fact) ==
  LET four == FirstN(SelectSeq(fact, IsWord), 4)
      fits == {n \in 0..Len(four) : TextLen(FirstN(four, n)) <= 30}
  IN FirstN(four, CHOOSE n \in fits : \A k \in fits : k <= n)

\* preference_patterns (persistent_memory.py:217-227): (key, value) or <<>>
PreferenceCapture(s) ==
  LET p1a == LeadCapture(s, <<"i", "always", "prefer">>, {}, 5, 50)
      p1b == LeadCapture(s, <<"i", "usually", "prefer">>, {}, 5, 50)
      p1c == LeadCapture(s, <<"i", "prefer">>, {}, 5, 50)
      c1  == IF p1c # <<>> THEN p1c ELSE IF p1a # <<>> THEN p1a ELSE p1b
      c2  == LeadCapture(s, <<"always">>, {}, 5, 50)
      c3  == LeadCapture(s, <<"i", "like">>, {"to", "when"}, 5, 50)
  IN IF c1 # <<>> THEN <<Trigger("preference", <<"preference">>, c1)>>
     ELSE IF c2 # <<>> THEN <<Trigger("preference", <<"always">>, c2)>>
     ELSE IF c3 # <<>> THEN <<Trigger("preference", <<"likes">>, c3)>>
     ELSE <<>>

\* detect_memory_triggers: the (category, key, value) list
detect_memory_triggers(message) ==
  LET msg_lower == LowerText(message)
      name      == NameCapture(msg_lower)
      company   == CompanyCapture(msg_lower)
      email     == EmailCapture(message)
      fact      == FactCapture(msg_lower)
  IN (IF name # <<>> THEN <<Trigger("identity", <<"name">>, TitleText(name))>> ELSE <<>>)
     \o (IF company # <<>> THEN <<Trigger("identity", <<"company">>, TitleText(company))>>
         ELSE <<>>)
     \o (IF email # <<>> THEN <<Trigger("identity", <<"email">>, email)>> ELSE <<>>)
     \o (IF fact # <<>> THEN <<Trigger("fact", FactKey(fact), fact)>> ELSE <<>>)
     \o PreferenceCapture(msg_lower)

\* the table user_persistent_memory of the user: rows (category, key, value)
\* in insertion order.  set_value with a plain INSERT
set_value_inserts(rows, category, key, value) ==
  Append(rows, Trigger(category, key, value))

\* PersistentUserMemory.set_value: INSERT ... ON CONFLICT(telegram_id, category,
\* key) DO UPDATE SET value
set_value(rows, category, key, value) ==
  IF \E i \in 1..Len(rows) : rows[i].category = category /\ rows[i].key = key
  THEN [i \in 1..Len(rows) |->
          IF rows[i].category = category /\ rows[i].key = key
          THEN Trigger(category, key, value) ELSE rows[i]]
  ELSE Append(rows, Trigger(category, key, value))

\* the for loop of process_message_for_memory
RECURSIVE StoreTriggers(_, _)
StoreTriggers(rows, triggers) ==
  IF triggers = <<>> THEN rows
  ELSE StoreTriggers(set_value(rows, triggers[1].category, triggers[1].key, triggers[1].value),
                     Tail(triggers))

\* process_message_for_memory: the table afterwards
process_message_for_memory(rows, message) ==
  StoreTriggers(rows, detect_memory_triggers(message))

\* PersistentUserMemory.get_context_prompt: the rows the profile block shows,
\* <<>> for the "" of an empty profile
get_context_prompt(rows) ==
  LET Shown(category, keys) ==
        SelectSeq(rows, LAMBDA r : r.category = category /\ r.key \in keys)
      Of(category) == SelectSeq(rows, LAMBDA r : r.category = category)
  IN Shown("identity", {<<"name">>}) \o Shown("identity", {<<"company">>})
     \o Shown("identity", {<<"email">>}) \o Shown("identity", {<<"role">>})
     \o FirstN(Of("preference"), 5) \o FirstN(Of("fact"), 5)

(***************************************************************************)
(* The system directive (src/agent/llm.py:25-66, 193-216,                  *)
(* src/bot/config.py:38-85).  A prompt is the sequence of its sections.    *)
(***************************************************************************)
THINK_STEP_BY_STEP ==
  "CRITICAL: You MUST process the user's request step-by-step inside <thinking></thinking> tags before answering."

\* the default of AgentConfig.system_prompt
AgentConfig_system_prompt ==
  << "You are a helpful AI assistant in a Telegram chat.",
     "CRITICAL FILE HANDLING",
     "CRITICAL: FOLLOW USER INSTRUCTIONS PRECISELY",
     "CRITICAL: ERROR HANDLING AND EFFICIENCY",
     "CRITICAL: LEARN FROM SESSION CONTEXT",
     "You have access to Google tools (Gmail, Drive, Sheets).",
     THINK_STEP_BY_STEP >>

\* the prompt AGENT_CONFIG passes to create_agent
get_system_prompt ==
  << "You are EAS Academy Bot, an intelligent AI assistant integrated with Google Workspace.",
     "CURRENT DATE/TIME",
     "CORE RESPONSIBILITIES",
     "MULTILINGUAL SUPPORT",
     "TOOL USAGE PROTOCOL",
     "OUTPUT FORMAT" >>

\* the prompts an agent can be constructed with: create_agent(AGENT_CONFIG) and
\* create_agent()
SystemPrompts == {get_system_prompt, AgentConfig_system_prompt}

\* the two texts the gate looks for, and the text it puts in place of the first
CHAIN_OF_THOUGHT_HEADER ==
  "CRITICAL: CHAIN OF THOUGHT You MUST think before you speak. Every response must strictly follow this format:"

THINKING_TEMPLATE ==
  "<thinking> 1. Analyze the user's request. 2. Check if any tools (Gmail, Drive, Memory, etc.) are needed. 3. Formulate the execution plan. 4. Construct the final response. </thinking>"

REPLY_DIRECTLY == "For this simple request, reply directly without thinking tags."

\* str.replace on a prompt: every occurrence of the section `old` becomes the
\* sections `new`
RECURSIVE Replace(_, _, _)
Replace(content, old, new) ==
  IF content = <<>> THEN <<>>
  ELSE (IF content[1] = old THEN new ELSE <<content[1]>>) \o Replace(Tail(content), old, new)

GREETINGS == {<<"hi">>, <<"hello">>, <<"hey">>, <<"start">>}

\* the condition of llm.py:199
is_simple_query(message) ==
  TextLen(Strip(message)) < 10 \/ Strip(LowerText(message)) \in GREETINGS

\* llm.py:194-208: the directive part of system_content
Gate(prompt, message) ==
  IF is_simple_query(message)
  THEN Replace(Replace(prompt, CHAIN_OF_THOUGHT_HEADER, <<REPLY_DIRECTLY>>),
               THINKING_TEMPLATE, <<>>)
  ELSE prompt

\* llm.py:194-216: the directive, then the profile block, then the block of
\* relevant past conversations; session_context holds the digests of the
\* SESSION CONTEXT blocks the loop adds behind them
SystemContent(prompt, message, persistent_context, memory_context) ==
  [ directive          |-> Gate(prompt, message),
    persistent_context |-> persistent_context,
    memory_context     |-> memory_context,
    session_context    |-> <<>> ]

\* llm.py:280-286: messages[0] becomes its content + the SESSION CONTEXT block
\* with the digest and the DO NOT repeat instruction
InjectSessionContext(content, digest) ==
  IF digest # <<>> THEN [content EXCEPT !.session_context = Append(@, digest)] ELSE content

NoContent == SystemContent(<<>>, <<>>, <<>>, {})

(***************************************************************************)
(* Post-processing of the final text (llm.py:367-401)                      *)
(***************************************************************************)
\* llm.py:368-390: (thinking_content, answer_content) parsed from final_response
ParseThinking(final_response) ==
  LET thinking_start == Find(final_response, THINK_OPEN)
      thinking_end   == Find(final_response, THINK_CLOSE)
      found    == thinking_start # 0 /\ thinking_end # 0
      thinking == IF found
                  THEN SubSeq(final_response, thinking_start + 1, thinking_end - 1)
                  ELSE <<>>
      answer   == IF found
                  THEN SubSeq(final_response, thinking_end + 1, Len(final_response))
                  ELSE final_response
  IN IF final_response # <<>>
     THEN [thinking |-> thinking,
           answer   |-> IF answer # <<>> THEN answer
                        ELSE IF thinking # <<>> THEN thinking ELSE final_response]
     ELSE [thinking |-> <<>>, answer |-> <<>>]

\* " ".join(f"CHART_FILE:{path}" for path in chart_files)
ChartMarkers(chart_files) == [i \in 1..Len(chart_files) |-> ChartMarker(chart_files[i])]

\* llm.py:392-401 without the elif branch
AppendChartsNoApology(answer_content, chart_files) ==
  IF chart_files # <<>>
  THEN IF answer_content # <<>>
       THEN ChartMarkers(chart_files) \o answer_content
       ELSE ChartMarkers(chart_files) \o CHART_SENTENCE
  ELSE answer_content

\* llm.py:392-401
AppendCharts(answer_content, chart_files) ==
  IF chart_files # <<>>
  THEN IF answer_content # <<>>
       THEN ChartMarkers(chart_files) \o answer_content
       ELSE ChartMarkers(chart_files) \o CHART_SENTENCE
  ELSE IF answer_content = <<>> THEN APOLOGY ELSE answer_content

PostProcess(final_response, chart_files) ==
  LET parsed == ParseThinking(final_response)
  IN [thinking |-> parsed.thinking,
      answer   |-> AppendCharts(parsed.answer, chart_files)]

\* the content of the tool-result turn of a skipped call (llm.py:307) and of an
\* attempted one (llm.py:345)
SkipText(failure_reason) ==
  [skipped |-> TRUE, failure |-> failure_reason, text |-> "", charts |-> <<>>]

ResultText(result) ==
  [skipped |-> FALSE, failure |-> NoFailure, text |-> result.text, charts |-> result.charts]

NoCall == Call("", NoArgs)

NoResult == ResultText(Result("", <<>>))

(***************************************************************************)
(* State                                                                   *)
(***************************************************************************)
VARIABLES
  \* TelegramAgent.conversations[user]: the list object the dictionary holds
  conversations,
  \* the list objects (Python lists are shared by reference)
  lists,
  \* TelegramAgent.tool_sessions[user]: ToolSessionMemory.calls, .failed_patterns
  calls, failed_patterns,
  \* the runs memory_manager.add_conversation stored
  semantic_memory,
  \* messages handled so far, chart files created so far
  next_run, next_chart,
  \* per worker thread: position, the message (run) it handles
  pc, run,
  \* locals of generate_response_with_thinking
  iteration, messages, pending, chart_files, final_response, last_reply,
  thinking_content, answer_content,
  \* locals of the tool-call loop: tool_call (tool_name, tool_args), tool_result
  \* (the content of the turn appended for it), and whether tool.invoke ran
  tool_call, tool_result, invoked,
  \* locals of add_to_history: role, history, and the slice history[-20:]
  role, history, sliced,
  \* observations of the run: model invocations made, how it was aborted, the
  \* pattern keys it recorded as failures, the photos sent for it
  invocations, aborted, run_failed, delivered,
  \* observation of the session memory: per tool, the record_call operations
  \* with success = false since the memory was created or last cleared, and
  \* the clear() calls since the last record_call (how many, up to two, and how
  \* many records the first of them dropped)
  failures, cleared,
  \* self.config.system_prompt, and the rows of the user in the table
  \* user_persistent_memory
  system_prompt, profile,
  \* per worker: the inbound message, the SystemMessage content built for it,
  \* and the store that is unavailable while the run lasts ("none", "semantic"
  \* for the vector store or its embeddings, "profile" for the table)
  message, system_content, outage,
  \* observation of the history: the turns add_to_history appended since the
  \* history was created or last cleared
  appended,
  \* TelegramAgent.current_file_context[user]: the run whose document is
  \* stored, 0 for no entry
  current_file_context,
  \* the tables invite_codes and users of the bot's SQLite database
  invite_codes, users,
  \* per worker thread: position and locals of register_user
  registration,
  \* main(): media_groups and media_group_timers, by media_group_id (0 for no
  \* entry, else the list object or the Timer), and the list objects
  media_groups, media_group_timers, media_lists,
  \* the polling thread: position, msg and the list it looked up
  polling,
  \* the threading.Timer objects: position and locals of process_media_group
  timers,
  \* the merged messages given to executor.submit, in order
  submitted

vars == <<conversations, lists, calls, failed_patterns, semantic_memory, next_run,
          next_chart, pc, run, iteration, messages, pending, chart_files,
          final_response, last_reply, thinking_content, answer_content, tool_call,
          tool_result, invoked, role, history, sliced, invocations, aborted, run_failed, delivered,
          failures, cleared, system_prompt, profile, message, system_content, outage,
          appended, current_file_context, invite_codes, users, registration,
          media_groups, media_group_timers, media_lists, polling, timers, submitted>>

\* the state of the bot outside the agent
reg_vars == <<invite_codes, users, registration>>

media_vars == <<media_groups, media_group_timers, media_lists, polling, timers, submitted>>

front_vars == <<reg_vars, media_vars>>

ctx_vars == <<system_prompt, profile, message, system_content, outage, current_file_context,
              front_vars>>

\* the same without the system content the loop rewrites
inv_vars == <<system_prompt, profile, message, outage, current_file_context, front_vars>>

hist_vars == <<conversations, lists, role, history, sliced>>

mem_vars == <<calls, failed_patterns, run_failed, failures, cleared>>

loop_vars == <<iteration, messages, pending, chart_files, final_response, last_reply,
               invocations, tool_call, tool_result, invoked>>

tool_vars == <<tool_call, tool_result, invoked>>

out_vars == <<thinking_content, answer_content, aborted>>

NotCleared == [times |-> 0, dropped |-> 0]

\* the invite codes an administrator created (admin/api/database.py:28-38:
\* code is unique, is_used defaults to false), keyed by code
InviteCodes == [c \in {"GT2024"} |-> [id |-> 1, is_used |-> FALSE, telegram_id |-> 0]]

\* messages with a media_group_id the polling loop receives at most
MaxMediaMessages == 3

\* the messages, and as many list objects and Timer objects (main.py:57, 63
\* create one per message at most)
MediaIds == 1..MaxMediaMessages

\* the media_group_id values of the messages
MediaGroupIds == {"album"}

\* the polling thread between two updates
NotPolling == [pc |-> "poll", received |-> 0, media_group_id |-> "", list |-> 0]

\* a Timer that was not created yet
NoTimer == [pc |-> "none", group_id |-> "", messages |-> 0]

\* a worker thread that is not in register_user
NoRegistration ==
  [pc |-> "idle", telegram_id |-> 0, invite_code |-> "", invite_id |-> 0,
   result |-> "", calls |-> 0]

ListIds == 0..(Cardinality(Workers) + 1)

NoList == Cardinality(Workers) + 2

Turn(who, r, content) == [role |-> who, run |-> r, content |-> content]

\* the turns of n earlier exchanges
EarlierTurns(n) ==
  [i \in 1..n |-> IF i % 2 = 1 THEN Turn("user", 0, <<>>)
                  ELSE Turn("assistant", 0, <<W("Earlier answer.")>>)]

\* the user's stored history
StoredHistory == lists[conversations]

InitAgent(h0, prompt) ==
  /\ conversations = 0
  /\ lists = [l \in ListIds |-> IF l = 0 THEN h0 ELSE <<>>]
  /\ calls = <<>>
  /\ failed_patterns = <<>>
  /\ semantic_memory = {}
  /\ next_run = 0
  /\ next_chart = 0
  /\ pc = [w \in Workers |-> "idle"]
  /\ run = [w \in Workers |-> 0]
  /\ iteration = [w \in Workers |-> 0]
  /\ messages = [w \in Workers |-> <<>>]
  /\ pending = [w \in Workers |-> 0]
  /\ chart_files = [w \in Workers |-> <<>>]
  /\ final_response = [w \in Workers |-> <<>>]
  /\ last_reply = [w \in Workers |-> <<>>]
  /\ thinking_content = [w \in Workers |-> <<>>]
  /\ answer_content = [w \in Workers |-> <<>>]
  /\ tool_call = [w \in Workers |-> NoCall]
  /\ tool_result = [w \in Workers |-> NoResult]
  /\ invoked = [w \in Workers |-> FALSE]
  /\ role = [w \in Workers |-> "user"]
  /\ history = [w \in Workers |-> NoList]
  /\ sliced = [w \in Workers |-> <<>>]
  /\ invocations = [w \in Workers |-> 0]
  /\ aborted = [w \in Workers |-> "no"]
  /\ run_failed = [w \in Workers |-> {}]
  /\ delivered = [w \in Workers |-> <<>>]
  /\ failures = [t \in ToolNames |-> 0]
  /\ cleared = NotCleared
  /\ system_prompt = prompt
  /\ profile = <<>>
  /\ message = [w \in Workers |-> <<>>]
  /\ system_content = [w \in Workers |-> NoContent]
  /\ outage = [w \in Workers |-> "none"]
  /\ appended = h0
  /\ current_file_context = 0
  /\ invite_codes = InviteCodes
  /\ users = {}
  /\ registration = [t \in Workers |-> NoRegistration]
  /\ media_groups = [g \in MediaGroupIds |-> 0]
  /\ media_group_timers = [g \in MediaGroupIds |-> 0]
  /\ media_lists = [l \in MediaIds |-> <<>>]
  /\ polling = NotPolling
  /\ timers = [k \in MediaIds |-> NoTimer]
  /\ submitted = <<>>

\* the agent of src/bot/config.py:85
InitWith(h0) == InitAgent(h0, get_system_prompt)

\* the history holds the turns of 0 or of 10 earlier exchanges
InitialHistoryLengths == {0, HISTORY_LIMIT}

Init == \E n \in InitialHistoryLengths : InitWith(EarlierTurns(n))

(***************************************************************************)
(* generate_response_with_thinking (llm.py:153-418), one worker thread w   *)
(***************************************************************************)
\* process_message hands a message to the agent; llm.py:166-273 set the run up
\* processor.py:177-179: a message with a document stores it as the file
\* context of the user before the agent is called
SetFileContext(document) ==
  current_file_context' = IF document THEN next_run + 1 ELSE current_file_context

\* the inbound messages are those of msgs, with a document attached for the
\* values of docs, and the stores of faults are unavailable in some runs
StartRun(w, limit, msgs, faults, docs) ==
  /\ pc[w] \in {"idle", "done"}
  /\ next_run < limit
  /\ \E document \in docs : SetFileContext(document)
  /\ \E m \in msgs, fault \in {"none"} \cup faults :
       \* memory_manager.get_context (llm.py:179-181): the stored exchanges
       \* within the distance threshold; none when the search fails
       \E relevant \in (IF fault = "semantic" THEN {{}} ELSE SUBSET semantic_memory) :
         /\ message' = [message EXCEPT ![w] = m]
         /\ outage' = [outage EXCEPT ![w] = fault]
         \* get_user_memory_context (llm.py:185) reads before llm.py:188-191 write
         /\ system_content' = [system_content EXCEPT ![w] =
              SystemContent(system_prompt, m, get_context_prompt(profile), relevant)]
         /\ profile' = IF TextLen(m) > 10 THEN process_message_for_memory(profile, m)
                       ELSE profile
  /\ UNCHANGED system_prompt
  /\ next_run' = next_run + 1
  /\ run' = [run EXCEPT ![w] = next_run + 1]
  /\ pc' = [pc EXCEPT ![w] = "loop"]
  /\ iteration' = [iteration EXCEPT ![w] = 0]
  /\ invocations' = [invocations EXCEPT ![w] = 0]
  /\ messages' = [messages EXCEPT ![w] = <<>>]
  /\ pending' = [pending EXCEPT ![w] = 0]
  /\ chart_files' = [chart_files EXCEPT ![w] = <<>>]
  /\ final_response' = [final_response EXCEPT ![w] = <<>>]
  /\ last_reply' = [last_reply EXCEPT ![w] = <<>>]
  /\ thinking_content' = [thinking_content EXCEPT ![w] = <<>>]
  /\ answer_content' = [answer_content EXCEPT ![w] = <<>>]
  /\ aborted' = [aborted EXCEPT ![w] = "no"]
  /\ tool_call' = [tool_call EXCEPT ![w] = NoCall]
  /\ tool_result' = [tool_result EXCEPT ![w] = NoResult]
  /\ invoked' = [invoked EXCEPT ![w] = FALSE]
  /\ run_failed' = [run_failed EXCEPT ![w] = {}]
  /\ delivered' = [delivered EXCEPT ![w] = <<>>]
  /\ UNCHANGED <<hist_vars, calls, failed_patterns, failures, cleared, semantic_memory,
                 next_chart, appended, front_vars>>

\* the reply of process_message's except branch (processor.py:217-221)
SORRY_TEXT == <<W("Sorry, I encountered an error: unable to open database file")>>

\* sqlite3 raises in get_user_memory_context (llm.py:185) or in
\* process_message_for_memory (llm.py:189): both stand before the try of
\* llm.py:262, so the exception leaves generate_response_with_thinking and
\* process_message answers with send_reply
SetupRaises(w, limit, msgs, docs) ==
  /\ pc[w] \in {"idle", "done"}
  /\ next_run < limit
  /\ \E document \in docs : SetFileContext(document)
  /\ next_run' = next_run + 1
  /\ run' = [run EXCEPT ![w] = next_run + 1]
  /\ \E m \in msgs : message' = [message EXCEPT ![w] = m]
  /\ outage' = [outage EXCEPT ![w] = "profile"]
  /\ system_content' = [system_content EXCEPT ![w] = NoContent]
  /\ pc' = [pc EXCEPT ![w] = "done"]
  /\ iteration' = [iteration EXCEPT ![w] = 0]
  /\ invocations' = [invocations EXCEPT ![w] = 0]
  /\ messages' = [messages EXCEPT ![w] = <<>>]
  /\ pending' = [pending EXCEPT ![w] = 0]
  /\ chart_files' = [chart_files EXCEPT ![w] = <<>>]
  /\ final_response' = [final_response EXCEPT ![w] = <<>>]
  /\ last_reply' = [last_reply EXCEPT ![w] = <<>>]
  /\ thinking_content' = [thinking_content EXCEPT ![w] = <<>>]
  /\ answer_content' = [answer_content EXCEPT ![w] = SORRY_TEXT]
  /\ aborted' = [aborted EXCEPT ![w] = "setup"]
  /\ tool_call' = [tool_call EXCEPT ![w] = NoCall]
  /\ tool_result' = [tool_result EXCEPT ![w] = NoResult]
  /\ invoked' = [invoked EXCEPT ![w] = FALSE]
  /\ run_failed' = [run_failed EXCEPT ![w] = {}]
  /\ delivered' = [delivered EXCEPT ![w] = <<>>]
  /\ UNCHANGED <<hist_vars, calls, failed_patterns, failures, cleared, semantic_memory,
                 next_chart, system_prompt, profile, appended, front_vars>>

\* the loop condition with <= for <
LoopGuardInclusive(w) == iteration[w] <= max_iterations

\* `while iteration < max_iterations` (llm.py:275)
LoopGuard(w) == iteration[w] < max_iterations

\* an except branch that falls through to the history writes of llm.py:404
ErrorPathRecords(w, cause) ==
  /\ thinking_content' = [thinking_content EXCEPT ![w] = <<W("Error")>>]
  /\ answer_content' = [answer_content EXCEPT ![w] = ERROR_TEXT]
  /\ aborted' = [aborted EXCEPT ![w] = cause]
  /\ messages' = [messages EXCEPT ![w] = <<>>]
  /\ pending' = [pending EXCEPT ![w] = 0]
  /\ tool_call' = [tool_call EXCEPT ![w] = NoCall]
  /\ tool_result' = [tool_result EXCEPT ![w] = NoResult]
  /\ invoked' = [invoked EXCEPT ![w] = FALSE]
  /\ pc' = [pc EXCEPT ![w] = "ath_get"]

\* the except branch of llm.py:413-418: the run returns ("Error", error_msg)
ErrorPath(w, cause) ==
  /\ thinking_content' = [thinking_content EXCEPT ![w] = <<W("Error")>>]
  /\ answer_content' = [answer_content EXCEPT ![w] = ERROR_TEXT]
  /\ aborted' = [aborted EXCEPT ![w] = cause]
  /\ messages' = [messages EXCEPT ![w] = <<>>]
  /\ pending' = [pending EXCEPT ![w] = 0]
  /\ tool_call' = [tool_call EXCEPT ![w] = NoCall]
  /\ tool_result' = [tool_result EXCEPT ![w] = NoResult]
  /\ invoked' = [invoked EXCEPT ![w] = FALSE]
  /\ pc' = [pc EXCEPT ![w] = "send"]

\* llm.py:367-401 and the step into add_to_history (llm.py:404)
FinishLoop(w, text) ==
  LET post == PostProcess(text, chart_files[w])
  IN /\ final_response' = [final_response EXCEPT ![w] = text]
     /\ thinking_content' = [thinking_content EXCEPT ![w] = post.thinking]
     /\ answer_content' = [answer_content EXCEPT ![w] = post.answer]
     /\ role' = [role EXCEPT ![w] = "user"]
     /\ messages' = [messages EXCEPT ![w] = <<>>]
     /\ tool_call' = [tool_call EXCEPT ![w] = NoCall]
     /\ tool_result' = [tool_result EXCEPT ![w] = NoResult]
     /\ invoked' = [invoked EXCEPT ![w] = FALSE]
     /\ pc' = [pc EXCEPT ![w] = "ath_get"]
     /\ UNCHANGED aborted

\* one more iteration: llm.py:276 and the model invocation of llm.py:289
Invoked(w) ==
  /\ pc[w] = "loop"
  /\ LoopGuard(w)
  /\ iteration' = [iteration EXCEPT ![w] = @ + 1]
  /\ system_content' = [system_content EXCEPT ![w] =
       IF iteration'[w] > 1
       THEN InjectSessionContext(@, get_context_summary(calls, failed_patterns))
       ELSE @]
  /\ invocations' = [invocations EXCEPT ![w] = @ + 1]

\* llm_with_tools.invoke raises
InvokeRaises(w) ==
  /\ Invoked(w)
  /\ ErrorPath(w, "model")
  /\ UNCHANGED <<hist_vars, mem_vars, inv_vars, appended, semantic_memory, next_run, next_chart, run,
                 chart_files, final_response, last_reply, delivered>>

\* the reply requests n tool calls (llm.py:292-296); the model does so in the
\* first `rounds` iterations
InvokeToolCalls(w, rounds) ==
  /\ Invoked(w)
  /\ iteration[w] < rounds
  /\ \E n \in 1..MaxCallsPerReply :
       /\ messages' = [messages EXCEPT ![w] = <<[type |-> "ai", n_calls |-> n]>>]
       /\ pending' = [pending EXCEPT ![w] = n]
  /\ last_reply' = [last_reply EXCEPT ![w] = TOOL_REPLY_TEXT]
  /\ pc' = [pc EXCEPT ![w] = "tools"]
  /\ UNCHANGED <<hist_vars, mem_vars, inv_vars, appended, out_vars, tool_vars, semantic_memory, next_run,
                 next_chart, run, chart_files, final_response, delivered>>

\* the reply requests no tool call: its text is the final response (llm.py:351-365)
InvokeFinal(w, texts) ==
  /\ Invoked(w)
  /\ \E text \in texts :
       /\ last_reply' = [last_reply EXCEPT ![w] = text]
       /\ FinishLoop(w, text)
  /\ UNCHANGED <<conversations, lists, history, sliced, mem_vars, inv_vars, appended, semantic_memory,
                 next_run, next_chart, run, pending, chart_files, delivered>>

\* the loop ends because the iteration budget is used up; final_response is
\* still the "" of llm.py:266
LoopExhausted(w) ==
  /\ pc[w] = "loop"
  /\ ~LoopGuard(w)
  /\ FinishLoop(w, final_response[w])
  /\ UNCHANGED <<conversations, lists, history, sliced, mem_vars, ctx_vars, appended, semantic_memory,
                 next_run, next_chart, run, iteration, invocations, pending,
                 chart_files, last_reply, delivered>>

(***************************************************************************)
(* The tool calls of one reply (llm.py:299-347)                            *)
(***************************************************************************)
\* ToolMessage(content=str(tool_result), tool_call_id=tool_call['id']); the
\* content is the local tool_result
ToolMessage(id) == [type |-> "tool", tool_call_id |-> id]

\* llm.py:300-301 and 344-347 for the next call of the reply, and `continue`
\* after its last call
AppendToolMessage(w, call, content, ran) ==
  LET n  == messages[w][1].n_calls
      id == n - pending[w] + 1
  IN /\ tool_call' = [tool_call EXCEPT ![w] = call]
     /\ tool_result' = [tool_result EXCEPT ![w] = content]
     /\ invoked' = [invoked EXCEPT ![w] = ran]
     /\ messages' = [messages EXCEPT ![w] = Append(@, ToolMessage(id))]
     /\ pending' = [pending EXCEPT ![w] = @ - 1]
     /\ pc' = [pc EXCEPT ![w] = IF pending[w] = 1 THEN "loop" ELSE "tools"]

\* has_similar_failure raises (the query is not a string): the exception leaves
\* the loop through llm.py:413
ToolCallAborts(w, requested) ==
  /\ pc[w] = "tools"
  /\ \E call \in requested :
       /\ QueryRaises(call.name, call.args)
       /\ ErrorPath(w, "tool")
  /\ UNCHANGED <<hist_vars, mem_vars, ctx_vars, appended, semantic_memory, next_run, next_chart, run,
                 iteration, invocations, chart_files, final_response, last_reply,
                 delivered>>

\* a skip that goes to the next call without a tool-result turn
ToolCallSkippedSilently(w, requested) ==
  /\ pc[w] = "tools"
  /\ \E call \in requested :
       /\ ~QueryRaises(call.name, call.args)
       /\ LET failure_reason == has_similar_failure(failed_patterns, call.name, call.args)
          IN /\ Truthy(failure_reason)
             /\ tool_call' = [tool_call EXCEPT ![w] = call]
             /\ tool_result' = [tool_result EXCEPT ![w] = SkipText(failure_reason)]
             /\ invoked' = [invoked EXCEPT ![w] = FALSE]
             /\ pending' = [pending EXCEPT ![w] = @ - 1]
             /\ pc' = [pc EXCEPT ![w] = IF pending[w] = 1 THEN "loop" ELSE "tools"]
  /\ UNCHANGED <<hist_vars, mem_vars, ctx_vars, appended, out_vars, semantic_memory, next_run, next_chart,
                 run, iteration, invocations, chart_files, final_response, last_reply,
                 delivered, messages>>

\* a skip that records the call it skips as one more failure
ToolCallSkippedRecords(w, requested) ==
  /\ pc[w] = "tools"
  /\ \E call \in requested :
       /\ ~QueryRaises(call.name, call.args)
       /\ LET failure_reason == has_similar_failure(failed_patterns, call.name, call.args)
              m == record_call(calls, failed_patterns, call.name, call.args,
                               Result("", <<>>), FALSE)
          IN /\ Truthy(failure_reason)
             /\ calls' = m.calls
             /\ failed_patterns' = m.failed_patterns
             /\ AppendToolMessage(w, call, SkipText(failure_reason), FALSE)
  /\ UNCHANGED <<hist_vars, run_failed, failures, cleared, ctx_vars, appended, out_vars,
                 semantic_memory, next_run, next_chart, run, iteration, invocations,
                 chart_files, final_response, last_reply, delivered>>

\* llm.py:305-308
ToolCallSkipped(w, requested) ==
  /\ pc[w] = "tools"
  /\ \E call \in requested :
       /\ ~QueryRaises(call.name, call.args)
       /\ LET failure_reason == has_similar_failure(failed_patterns, call.name, call.args)
          IN /\ Truthy(failure_reason)
             /\ AppendToolMessage(w, call, SkipText(failure_reason), FALSE)
  /\ UNCHANGED <<hist_vars, mem_vars, ctx_vars, appended, out_vars, semantic_memory, next_run, next_chart,
                 run, iteration, invocations, chart_files, final_response, last_reply,
                 delivered>>

\* a record_call operation on the user's session memory
MemoryRecords(call, result, success) ==
  LET m == record_call(calls, failed_patterns, call.name, call.args, result, success)
  IN /\ calls' = m.calls
     /\ failed_patterns' = m.failed_patterns
     /\ failures' = IF success THEN failures
                    ELSE [failures EXCEPT ![call.name] = @ + 1]
     /\ cleared' = NotCleared

\* session_memory.record_call (llm.py:341)
RecordCall(w, call, result, success) ==
  /\ MemoryRecords(call, result, success)
  /\ run_failed' = [run_failed EXCEPT ![w] =
                      IF success THEN @ ELSE @ \cup {_get_pattern_key(call.name, call.args)}]

\* llm.py:310-341 for a bound tool: invoke, classify, capture charts, record
\* (while the memory holds fewer than max_calls records)
ToolCallExecuted(w, requested, max_calls) ==
  /\ pc[w] = "tools"
  /\ Len(calls) < max_calls
  /\ \E call \in requested :
       /\ ~QueryRaises(call.name, call.args)
       /\ ~Truthy(has_similar_failure(failed_patterns, call.name, call.args))
       /\ call.name \in BoundTools
       /\ \E outcome \in ToolOutcomes(call, next_chart + 1) :
            LET returned      == outcome.result
                tool_success  == IF outcome.raised THEN FALSE ELSE ToolSuccess(returned)
                chart_matches == IF outcome.raised THEN <<>> ELSE returned.charts
            IN /\ chart_matches # <<>> => next_chart < MaxCharts
               /\ next_chart' = next_chart + Len(chart_matches)
               /\ chart_files' = [chart_files EXCEPT ![w] = @ \o chart_matches]
               /\ RecordCall(w, call, returned, tool_success)
               /\ AppendToolMessage(w, call, ResultText(returned), TRUE)
  /\ UNCHANGED <<hist_vars, out_vars, ctx_vars, appended, semantic_memory, next_run, run, iteration,
                 invocations, final_response, last_reply, delivered>>

\* llm.py:311-314, 341: no bound tool has the name; "Tool not found" is recorded
ToolCallUnknown(w, requested, max_calls) ==
  /\ pc[w] = "tools"
  /\ Len(calls) < max_calls
  /\ \E call \in requested :
       /\ ~QueryRaises(call.name, call.args)
       /\ ~Truthy(has_similar_failure(failed_patterns, call.name, call.args))
       /\ call.name \notin BoundTools
       /\ RecordCall(w, call, Result(R_TOOL_NOT_FOUND, <<>>), FALSE)
       /\ AppendToolMessage(w, call, ResultText(Result(R_TOOL_NOT_FOUND, <<>>)), FALSE)
  /\ UNCHANGED <<hist_vars, out_vars, ctx_vars, appended, semantic_memory, next_run, next_chart, run,
                 iteration, invocations, chart_files, final_response, last_reply,
                 delivered>>

(***************************************************************************)
(* add_to_history (llm.py:101-113), one step per shared access             *)
(***************************************************************************)
\* a list object no reference points to
FreeList == CHOOSE l \in ListIds : l # conversations /\ \A w \in Workers : history[w] # l

\* list objects without a reference are dropped
Collect(ls, conv, hist) ==
  [l \in ListIds |-> IF l = conv \/ \E w \in Workers : hist[w] = l THEN ls[l] ELSE <<>>]

\* the content of the turn llm.py:404-405 appends
TurnContent(w) == IF role[w] = "user" THEN <<>> ELSE answer_content[w]

\* the messages list of the loop is not read after the loop: the blocks added
\* to its system message are gone with it
AfterLoop(w) == [system_content EXCEPT ![w].session_context = <<>>]

\* history = self.get_history(user_id)
AthGet(w) ==
  /\ pc[w] = "ath_get"
  /\ history' = [history EXCEPT ![w] = conversations]
  /\ system_content' = AfterLoop(w)
  /\ pc' = [pc EXCEPT ![w] = "ath_append"]
  /\ UNCHANGED <<conversations, lists, role, sliced, mem_vars, inv_vars, appended, loop_vars,
                 out_vars, semantic_memory, next_run, next_chart, run, delivered>>

\* history.append(...)
AthAppend(w) ==
  /\ pc[w] = "ath_append"
  /\ lists' = [lists EXCEPT ![history[w]] = Append(@, Turn(role[w], run[w], TurnContent(w)))]
  /\ appended' = Append(appended, Turn(role[w], run[w], TurnContent(w)))
  /\ pc' = [pc EXCEPT ![w] = "ath_len"]
  /\ UNCHANGED <<conversations, role, history, sliced, mem_vars, ctx_vars, loop_vars, out_vars,
                 semantic_memory, next_run, next_chart, run, delivered>>

\* a slice that keeps the first 20 turns
AthLenKeepsOldest(w) ==
  /\ pc[w] = "ath_len"
  /\ IF Len(lists[history[w]]) > HISTORY_LIMIT
     THEN /\ sliced' = [sliced EXCEPT ![w] = FirstN(lists[history[w]], HISTORY_LIMIT)]
          /\ pc' = [pc EXCEPT ![w] = "ath_store"]
     ELSE /\ pc' = [pc EXCEPT ![w] = "ath_ret"]
          /\ UNCHANGED sliced
  /\ UNCHANGED <<conversations, lists, role, history, mem_vars, ctx_vars, appended, loop_vars,
                 out_vars, semantic_memory, next_run, next_chart, run, delivered>>

\* if len(history) > 20: ... history[-20:]
AthLen(w) ==
  /\ pc[w] = "ath_len"
  /\ IF Len(lists[history[w]]) > HISTORY_LIMIT
     THEN /\ sliced' = [sliced EXCEPT ![w] = LastN(lists[history[w]], HISTORY_LIMIT)]
          /\ pc' = [pc EXCEPT ![w] = "ath_store"]
     ELSE /\ pc' = [pc EXCEPT ![w] = "ath_ret"]
          /\ UNCHANGED sliced
  /\ UNCHANGED <<conversations, lists, role, history, mem_vars, ctx_vars, appended, loop_vars, out_vars,
                 semantic_memory, next_run, next_chart, run, delivered>>

\* a store that takes the slice anew, at the time it stores
AthStoreSlicesAnew(w) ==
  /\ pc[w] = "ath_store"
  /\ conversations' = FreeList
  /\ lists' = Collect([lists EXCEPT ![FreeList] = LastN(lists[history[w]], HISTORY_LIMIT)],
                      FreeList, history)
  /\ sliced' = [sliced EXCEPT ![w] = <<>>]
  /\ pc' = [pc EXCEPT ![w] = "ath_ret"]
  /\ UNCHANGED <<role, history, mem_vars, ctx_vars, appended, loop_vars, out_vars,
                 semantic_memory, next_run, next_chart, run, delivered>>

\* self.conversations[user_id] = <the slice>
AthStore(w) ==
  /\ pc[w] = "ath_store"
  /\ conversations' = FreeList
  /\ lists' = Collect([lists EXCEPT ![FreeList] = sliced[w]], FreeList, history)
  /\ sliced' = [sliced EXCEPT ![w] = <<>>]
  /\ pc' = [pc EXCEPT ![w] = "ath_ret"]
  /\ UNCHANGED <<role, history, mem_vars, ctx_vars, appended, loop_vars, out_vars, semantic_memory,
                 next_run, next_chart, run, delivered>>

\* add_to_history returns: to llm.py:405 after the user turn; after the
\* assistant turn memory_manager.add_conversation stores the exchange and the
\* run returns (llm.py:408-411)
AthReturn(w) ==
  /\ pc[w] = "ath_ret"
  /\ history' = [history EXCEPT ![w] = NoList]
  /\ lists' = Collect(lists, conversations, history')
  /\ IF role[w] = "user"
     THEN /\ role' = [role EXCEPT ![w] = "assistant"]
          /\ pc' = [pc EXCEPT ![w] = "ath_get"]
          /\ UNCHANGED semantic_memory
     ELSE /\ role' = [role EXCEPT ![w] = "user"]
          \* UserMemory.add_message catches what the store raises
          /\ semantic_memory' = IF outage[w] = "semantic" THEN semantic_memory
                                ELSE semantic_memory \cup {run[w]}
          /\ pc' = [pc EXCEPT ![w] = "send"]
  /\ UNCHANGED <<conversations, sliced, mem_vars, ctx_vars, appended, loop_vars, out_vars, next_run,
                 next_chart, run, delivered>>

\* an add_to_history call of some thread is between its first and its last
\* statement
InAddToHistory == \E w \in Workers : pc[w] \in {"ath_append", "ath_len", "ath_store"}

\* clear_history: self.conversations[user_id] = [], called between two
\* add_to_history calls
ClearHistory ==
  /\ ~InAddToHistory
  /\ conversations' = FreeList
  /\ lists' = Collect([lists EXCEPT ![FreeList] = <<>>], FreeList, history)
  /\ appended' = <<>>
  /\ UNCHANGED <<role, history, sliced, mem_vars, ctx_vars, loop_vars, out_vars,
                 semantic_memory, next_run, next_chart, pc, run, delivered>>

(***************************************************************************)
(* send_conversational_response (telegram.py:313-340) on the run's answer  *)
(***************************************************************************)
\* the chart paths send_photo is called with (the files exist: generate_chart
\* wrote them)
PhotosSent(response) == Dedup(FindChartPaths(response))

SendResponse(w) ==
  /\ pc[w] = "send"
  /\ delivered' = [delivered EXCEPT ![w] = PhotosSent(answer_content[w])]
  /\ system_content' = AfterLoop(w)
  \* clear_current_file_context (processor.py:209)
  /\ current_file_context' = 0
  /\ pc' = [pc EXCEPT ![w] = "done"]
  /\ UNCHANGED <<hist_vars, mem_vars, system_prompt, profile, message, outage, appended,
                 loop_vars, out_vars, semantic_memory, next_run, next_chart, run,
                 front_vars>>

(***************************************************************************)
(* Specifications                                                          *)
(***************************************************************************)
\* a message without greeting or trigger
PlainMessages == {M_LONG}

WorkerStep(w) ==
  \/ StartRun(w, MaxRuns, PlainMessages, {}, {FALSE})
  \/ InvokeRaises(w)
  \/ InvokeToolCalls(w, max_iterations)
  \/ InvokeFinal(w, FinalTexts(1..next_chart))
  \/ LoopExhausted(w)
  \/ ToolCallAborts(w, LoopCalls)
  \/ ToolCallSkipped(w, LoopCalls)
  \/ ToolCallExecuted(w, LoopCalls, MaxCalls)
  \/ ToolCallUnknown(w, LoopCalls, MaxCalls)
  \/ AthGet(w)
  \/ AthAppend(w)
  \/ AthLen(w)
  \/ AthStore(w)
  \/ AthReturn(w)
  \/ SendResponse(w)

\* the messages of the user are handled one after the other by one worker
Next == WorkerStep(1)

Spec == Init /\ [][Next]_vars

(***************************************************************************)
(* Several messages of the user, handled by two workers at once            *)
(* (src/main.py:21, 68: executor.submit per message, no per-user queue).   *)
(* The model asks for tool calls in the first MaxConcRounds iterations     *)
(* only, and for the calls of ConcCalls.                                   *)
(***************************************************************************)
MaxConcRuns == 2

MaxConcRounds == 1

ConcCalls == { Call("search_catalogue", StrArgs(<<"blue", "widget">>)) }

ConcTexts == { <<W("Done.")>> }

ConcStep(w) ==
  \/ StartRun(w, MaxConcRuns, PlainMessages, {}, {FALSE})
  \/ InvokeToolCalls(w, MaxConcRounds)
  \/ InvokeFinal(w, ConcTexts)
  \/ ToolCallSkipped(w, ConcCalls)
  \/ ToolCallExecuted(w, ConcCalls, MaxCalls)
  \/ AthGet(w)
  \/ AthAppend(w)
  \/ AthLen(w)
  \/ AthStore(w)
  \/ AthReturn(w)
  \/ SendResponse(w)

InitConc == InitWith(EarlierTurns(HISTORY_LIMIT - 2))

NextConc == \E w \in Workers : ConcStep(w)

SpecConc == InitConc /\ [][NextConc]_vars

(***************************************************************************)
(* One run in which the model keeps asking for search_gmail with new       *)
(* queries (no variation test applies to search_gmail)                     *)
(***************************************************************************)
MaxBreakerCalls == 4

MaxBreakerRounds == 4

BreakerCalls ==
  { Call("search_gmail", StrArgs(<<q>>)) : q \in {"invoice", "acme", "receipt", "order"} }

BreakerStep(w) ==
  \/ StartRun(w, MaxRuns, PlainMessages, {}, {FALSE})
  \/ InvokeToolCalls(w, MaxBreakerRounds)
  \/ InvokeFinal(w, ConcTexts)
  \/ ToolCallSkipped(w, BreakerCalls)
  \/ ToolCallExecuted(w, BreakerCalls, MaxBreakerCalls)
  \/ AthGet(w)
  \/ AthAppend(w)
  \/ AthLen(w)
  \/ AthStore(w)
  \/ AthReturn(w)
  \/ SendResponse(w)

InitBreaker == InitWith(EarlierTurns(HISTORY_LIMIT))

NextBreaker == BreakerStep(1)

SpecBreaker == InitBreaker /\ [][NextBreaker]_vars

(***************************************************************************)
(* Context assembly: messages with greetings, padding and memory triggers, *)
(* either prompt, and runs during which a memory store is unavailable.     *)
(* The model answers without tool calls.                                   *)
(***************************************************************************)
MaxCtxRuns == 2

CtxMessages ==
  {M_HI, M_HELLO, M_PADDED, M_CALL_ME, M_NAME, M_NAME_COMPANY, M_REMEMBER, M_LONG}

CtxStep(w) ==
  \/ StartRun(w, MaxCtxRuns, CtxMessages, {"semantic"}, BOOLEAN)
  \/ SetupRaises(w, MaxCtxRuns, CtxMessages, BOOLEAN)
  \/ InvokeFinal(w, ConcTexts)
  \/ AthGet(w)
  \/ AthAppend(w)
  \/ AthLen(w)
  \/ AthStore(w)
  \/ AthReturn(w)
  \/ SendResponse(w)

InitCtx == \E prompt \in SystemPrompts : InitAgent(EarlierTurns(HISTORY_LIMIT), prompt)

NextCtx == CtxStep(1)

SpecCtx == InitCtx /\ [][NextCtx]_vars

(***************************************************************************)
(* A ToolSessionMemory on its own: any sequence of record_call and clear   *)
(* (src/agent/tool_memory.py:31-176)                                       *)
(***************************************************************************)
\* records the memory may hold
MaxMemCalls == 4

\* everything but the session memory
run_vars == <<hist_vars, loop_vars, out_vars, semantic_memory, next_run, next_chart, pc,
              run, run_failed, delivered, ctx_vars, appended>>

MemRecord ==
  /\ Len(calls) < MaxMemCalls
  /\ \E call \in MemCalls, result \in MemResults :
       MemoryRecords(call, result, ToolSuccess(result))
  /\ UNCHANGED run_vars

MemClear ==
  LET m == clear(calls, failed_patterns)
  IN /\ calls' = m.calls
     /\ failed_patterns' = m.failed_patterns
     /\ failures' = [t \in ToolNames |-> 0]
     /\ cleared' = [times   |-> IF cleared.times = 0 THEN 1 ELSE 2,
                     dropped |-> IF cleared.times = 0 THEN Len(calls) ELSE cleared.dropped]
     /\ UNCHANGED run_vars

InitMem == InitWith(<<>>)

NextMem == MemRecord \/ MemClear

SpecMem == InitMem /\ [][NextMem]_vars

(***************************************************************************)
(* The history of one user whose messages are handled one after the other, *)
(* with clear_history calls in between                                     *)
(***************************************************************************)
MaxHistRuns == 3

HistStep(w) ==
  \/ StartRun(w, MaxHistRuns, PlainMessages, {}, {FALSE})
  \/ InvokeFinal(w, FinalTexts({}))
  \/ AthGet(w)
  \/ AthAppend(w)
  \/ AthLen(w)
  \/ AthStore(w)
  \/ AthReturn(w)
  \/ SendResponse(w)

\* the history holds the turns of 0 or of 9 earlier exchanges
InitHist == \E n \in {0, HISTORY_LIMIT - 2} : InitWith(EarlierTurns(n))

NextHist == HistStep(1) \/ ClearHistory

SpecHist == InitHist /\ [][NextHist]_vars

(***************************************************************************)
(* A ToolSessionMemory that records up to MaxDigestCalls calls as the loop *)
(* passes them (string queries only: has_similar_failure has read the      *)
(* query before record_call does, llm.py:305, 341).  The n-th call is      *)
(* search_gmail with the n-th query or, for even n, list_drive_files.      *)
(***************************************************************************)
MaxDigestCalls == 10

DigestQueries ==
  <<"invoice", "acme", "receipt", "order", "quotes", "report", "sales", "folder", "list",
    "customers">>

DigestCalls(n) ==
  { Call("search_gmail",
         StrArgs(<<DigestQueries[IF n <= Len(DigestQueries) THEN n ELSE Len(DigestQueries)]>>)) }
  \cup (IF n % 2 = 0 THEN { Call("list_drive_files", MissingArgs) } ELSE {})

\* what the call returns: a listing or the error text of its except branch
\* (google_tools.py:165-180, 245-263)
DigestResults(call) ==
  IF call.name = "search_gmail"
  THEN { Result(R_FOUND, <<>>), Result(R_GMAIL_ERROR, <<>>) }
  ELSE { Result(R_FOUND, <<>>), Result(R_DRIVE_ERROR, <<>>) }

DigestRecord ==
  /\ Len(calls) < MaxDigestCalls
  /\ \E call \in DigestCalls(Len(calls) + 1) :
       \E result \in DigestResults(call) : MemoryRecords(call, result, ToolSuccess(result))
  /\ UNCHANGED run_vars

NextDigest == DigestRecord \/ MemClear

SpecDigest == InitMem /\ [][NextDigest]_vars

(***************************************************************************)
(* Properties                                                              *)
(***************************************************************************)
\* `session_memory = self.tool_sessions[user_id]` (llm.py:271-273): the one
\* instance of the user, whichever worker runs
session_memory(w) == [calls |-> calls, failed_patterns |-> failed_patterns]

\* the step appends the tool-result turn of the next call of w's reply
AnswersCall(w) ==
  /\ pc[w] = "tools"
  /\ Len(messages'[w]) = Len(messages[w]) + 1

RunOver(w) == pc[w] \in {"send", "done"}

\* C1: within one run, a requested call whose fingerprint equals that of a call
\* the run has recorded as a failure is not passed to tool.invoke: no record is
\* added, and the tool-result turn carries the skipped text with the recorded
\* reason.
C1_IdenticalFailedCallIsSkipped ==
  [][\A w \in Workers :
       (/\ AnswersCall(w)
        /\ _get_pattern_key(tool_call'[w].name, tool_call'[w].args) \in run_failed[w])
       => /\ ~invoked'[w]
          /\ calls' = calls
          /\ tool_result'[w].skipped
          /\ tool_result'[w].failure.found]_vars

\* a call with the fingerprint of a failure of the same run has been skipped
C1_Witness ==
  \E w \in Workers :
    /\ pc[w] \in {"tools", "loop"}
    /\ tool_result[w].skipped
    /\ ~tool_result[w].failure.similar
    /\ _get_pattern_key(tool_call[w].name, tool_call[w].args) \in run_failed[w]

\* C2: a run makes at most max_iterations = 15 model invocations, and a run that
\* has made 15 leaves the loop (its only step at the loop head is the exit).
C2_AtMostMaxIterationsInvocations ==
  \A w \in Workers :
    /\ invocations[w] <= max_iterations
    /\ (pc[w] = "loop" /\ invocations[w] = max_iterations)
         => (ENABLED LoopExhausted(w) /\ ~ENABLED Invoked(w))

\* a run that made 15 invocations has returned
C2_Witness ==
  \E w \in Workers : pc[w] = "done" /\ invocations[w] = max_iterations

\* some worker other than w is handling a message
OtherRunActive(w) == \E v \in Workers \ {w} : pc[v] \notin {"idle", "done"}

\* C3: the session memory is cleared at the end of every run, so a run starts
\* with no Tool Call Records and no failure patterns of the user's earlier runs.
C3_RunStartsWithEmptySessionMemory ==
  \A w \in Workers :
    (pc[w] = "loop" /\ iteration[w] = 0 /\ ~OtherRunActive(w))
      => (calls = <<>> /\ failed_patterns = <<>>)

\* C4: when an add_to_history call returns, the stored history of the user
\* holds at most 20 turns, also when two worker threads append to it.
C4_HistoryBoundedAtReturn ==
  \A w \in Workers : pc[w] = "ath_ret" => Len(StoredHistory) <= HISTORY_LIMIT

\* the run of w asked for tool calls in all 15 iterations and left the loop
\* through its condition
Exhausted(w) ==
  /\ RunOver(w)
  /\ aborted[w] = "no"
  /\ invocations[w] = max_iterations
  /\ last_reply[w] = TOOL_REPLY_TEXT

\* C5: a run that requests a tool call at each of the 15 iterations returns
\* without raising, and its answer is the text of the last model reply (chart
\* markers aside).
C5_ExhaustedRunReturnsLastReply ==
  \A w \in Workers :
    Exhausted(w) => StripChartMarkers(answer_content[w]) = last_reply[w]

\* occurrences of x in the sequence s
Count(s, x) == Cardinality({i \in 1..Len(s) : s[i] = x})

\* C6: every chart file a tool result of the run named is sent exactly once
\* with the run's response, also when a later model invocation fails (stated
\* for the runs no tool call aborted).
C6_EveryChartDeliveredOnce ==
  \A w \in Workers :
    (pc[w] = "done" /\ aborted[w] # "tool") => \A p \in Range(chart_files[w]) : Count(delivered[w], p) = 1

\* the tokens of a query after stopword removal
QueryWords(q) == Range(LowerText(q)) \ stopwords

\* queries a later call may carry
ProbeQueries ==
  { <<"invoice", "acme">>, <<"blue", "widget", "large">>, <<"widget", "blue">>,
    <<"a", "the">> }

\* C7: for a search-class tool, once q1 is recorded as a failure, every query
\* q2 whose tokens after stopword removal include those of q1 is flagged by
\* has_similar_failure.
C7_SupersetQueryIsFlagged ==
  \A i \in 1..Len(failed_patterns) : \A q2 \in ProbeQueries :
    LET failed == failed_patterns[i].key
    IN (/\ failed.tool \in PATTERN_KEY_SEARCH_TOOLS
        /\ QueryWords(failed.query) \subseteq QueryWords(q2))
       => Truthy(has_similar_failure(failed_patterns, failed.tool, StrArgs(q2)))

\* a and b hold the same words the same number of times
IsPermutation(a, b) ==
  /\ Len(a) = Len(b)
  /\ \A x \in Range(a) \cup Range(b) : Count(a, x) = Count(b, x)

\* the failed queries of w's run of which the query of `call` is a
\* word-order permutation (another order of the same words)
PermutedFailures(w, call) ==
  { k \in run_failed[w] :
      /\ k.tool = "search_catalogue"
      /\ call.name = "search_catalogue"
      /\ call.args.q_kind = "str"
      /\ k.query # LowerText(call.args.query)
      /\ IsPermutation(k.query, LowerText(call.args.query)) }

\* the call is answered with the skip text that names the failed query of key k
\* and its reason, and the tool is not invoked
SkippedNaming(w, k) ==
  /\ ~invoked'[w]
  /\ calls' = calls
  /\ tool_result'[w].skipped
  /\ tool_result'[w].failure.similar
  /\ tool_result'[w].failure.failed_query = k.query
  /\ tool_result'[w].failure.reason = PatternReason(failed_patterns, k)

C9_NoToolCallAbortsRun ==
  \A w \in Workers : aborted[w] # "tool"

\* the turns of run r in the list objects
TurnsOfRun(r) ==
  {<<l, i>> \in ListIds \X (1..(HISTORY_LIMIT + Cardinality(Workers))) :
     i <= Len(lists[l]) /\ lists[l][i].run = r}

\* C10: a run whose model invocation raised returns the error text and has
\* written nothing: no turn of it is in the history and the semantic memory
\* does not hold it.
C10_FailedInvocationWritesNothing ==
  \A w \in Workers :
    aborted[w] = "model"
      => /\ RunOver(w)
         /\ answer_content[w] = ERROR_TEXT
         /\ TurnsOfRun(run[w]) = {}
         /\ run[w] \notin semantic_memory

\* a model invocation after the first raised, over a history that holds turns
C10_Witness ==
  \E w \in Workers :
    /\ aborted[w] = "model"
    /\ pc[w] = "done"
    /\ invocations[w] > 1
    /\ StoredHistory # <<>>

\* C12: should_skip_tool(t) is (true, reason with the failure count) exactly
\* when at least 3 failed calls of t were recorded since the last clear, and
\* (false, "") otherwise.
C12_SkipExactlyFromThreeFailures ==
  \A t \in ToolNames :
    should_skip_tool(calls, t) =
      IF failures[t] >= 3
      THEN [skip |-> TRUE, reason |-> [tool |-> t, times |-> failures[t]]]
      ELSE [skip |-> FALSE, reason |-> NoReason]

\* three failures of list_drive_files are recorded: "failed 3 times"
C12_Witness ==
  /\ failures["list_drive_files"] = 3
  /\ should_skip_tool(calls, "list_drive_files").skip
  /\ should_skip_tool(calls, "list_drive_files").reason.times = 3

\* the calls has_similar_failure can be asked about
ProbeCalls == {c \in LoopCalls \cup MemCalls : ~QueryRaises(c.name, c.args)}

\* the memory answers as an empty one
AnswersAsEmpty ==
  /\ get_context_summary(calls, failed_patterns) = <<>>
  /\ \A t \in ToolNames : get_failure_count(calls, t) = 0
  /\ \A c \in ProbeCalls : has_similar_failure(failed_patterns, c.name, c.args) = NoFailure

\* C13: after clear() the summary is empty, every failure count is 0 and
\* has_similar_failure finds nothing; a second clear() changes nothing.
C13_ClearEmptiesAndIsIdempotent ==
  /\ [](cleared.times > 0 => AnswersAsEmpty)
  /\ [][(cleared.times > 0 /\ cleared'.times > 0)
          => UNCHANGED <<calls, failed_patterns>>]_vars

\* a memory that held records was cleared, and cleared again
C13_Witness ==
  /\ cleared.times = 2
  /\ cleared.dropped >= 2
  /\ AnswersAsEmpty

\* the failed records with pattern key k
FailedRecordsOf(k) ==
  {i \in 1..Len(calls) :
     /\ ~calls[i].success
     /\ ~QueryRaises(calls[i].tool_name, calls[i].args)
     /\ _get_pattern_key(calls[i].tool_name, calls[i].args) = k}

\* the step records a successful call with pattern key k
RecordsSuccessOf(k) ==
  /\ Len(calls') = Len(calls) + 1
  /\ calls'[Len(calls')].success
  /\ ~QueryRaises(calls'[Len(calls')].tool_name, calls'[Len(calls')].args)
  /\ _get_pattern_key(calls'[Len(calls')].tool_name, calls'[Len(calls')].args) = k

\* C19: every key of the failure-pattern index is the fingerprint of a failed
\* record made since the last clear, and recording a later success with the
\* same fingerprint keeps the key.
C19_FailureIndexBackedByFailedRecords ==
  /\ [](\A k \in PatternKeys(failed_patterns) : FailedRecordsOf(k) # {})
  /\ [][\A k \in PatternKeys(failed_patterns) :
          RecordsSuccessOf(k) => k \in PatternKeys(failed_patterns')]_vars

\* a call failed, the same call then succeeded, and its key is still indexed
C19_Witness ==
  \E k \in PatternKeys(failed_patterns) : \E i \in FailedRecordsOf(k) :
    \E j \in (i + 1)..Len(calls) :
      /\ calls[j].success
      /\ _get_pattern_key(calls[j].tool_name, calls[j].args) = k

\* the run of w is between its start and the end of its loop
InFlight(w) == pc[w] \in {"loop", "tools"}

\* arguments with the pattern key k
KeyArgs(k) == IF k.tool \in PATTERN_KEY_SEARCH_TOOLS THEN StrArgs(k.query) ELSE k.json

\* C11: while two runs of the user are in flight, a failure one of them
\* recorded is not visible to has_similar_failure of the other.
C11_FailuresNotSharedAcrossRuns ==
  \A w \in Workers : \A v \in Workers \ {w} :
    (InFlight(w) /\ InFlight(v))
      => \A k \in run_failed[v] \ run_failed[w] :
           ~Truthy(has_similar_failure(session_memory(w).failed_patterns, k.tool, KeyArgs(k)))

\* the turns appended since the last model invocation of w: the assistant turn
\* with its n requested calls, then one tool-result turn per answered call, keyed
\* by the call ids in the order of the request
ResultsCorrelated(w) ==
  messages[w] # <<>> =>
    LET n        == messages[w][1].n_calls
        answered == n - pending[w]
    IN /\ messages[w][1].type = "ai"
       /\ Len(messages[w]) = 1 + answered
       /\ \A i \in 1..answered : messages[w][i + 1] = ToolMessage(i)

\* C18: at every model invocation each call of the preceding reply has exactly
\* one tool-result turn, keyed by its id, after the assistant turn and in the
\* order of the request, whether the call was executed, failed, unknown or
\* skipped.  (Turns of earlier iterations are never touched again: the loop only
\* appends to the message list.)
C18_EveryCallHasItsResultTurn ==
  \A w \in Workers :
    /\ InFlight(w) => ResultsCorrelated(w)
    /\ (pc[w] = "loop" /\ iteration[w] > 0) => (pending[w] = 0 /\ messages[w] # <<>>)

\* a reply asked for two calls, the second was skipped, the next invocation is due
C18_Witness ==
  \E w \in Workers :
    /\ pc[w] = "loop"
    /\ Len(messages[w]) = 3
    /\ tool_result[w].skipped

\* C20: once a tool has 3 recorded failures in the run, every further call to
\* it is answered with a skip and is not executed.
C20_BreakerSkipsAfterThreeFailures ==
  [][\A w \in Workers :
       (AnswersCall(w) /\ get_failure_count(calls, tool_call'[w].name) >= 3)
       => (~invoked'[w] /\ tool_result'[w].skipped)]_vars

\* the run of w has built its system content and is about to invoke the model
ContextBuilt(w) == pc[w] = "loop" /\ outage[w] # "profile"

\* the instructions to always produce a reasoning block
ReasoningInstructions == {THINK_STEP_BY_STEP, CHAIN_OF_THOUGHT_HEADER, THINKING_TEMPLATE}

AsksForReasoningBlock(directive) ==
  \E i \in 1..Len(directive) : directive[i] \in ReasoningInstructions

\* C14: the directive sent to the model lacks the always-produce-a-reasoning-block
\* instruction exactly when the inbound message is shorter than 10 characters
\* after trimming or is one of the greetings hi, hello, hey, start; for every
\* other message the directive contains the instruction.
C14_GateSelectsDirective ==
  \A w \in Workers :
    ContextBuilt(w)
      => (is_simple_query(message[w])
            <=> ~AsksForReasoningBlock(system_content[w].directive))

\* C15: for the message "My name is Alex and I work at Acme" trigger detection
\* yields exactly (identity, name) -> Alex and (identity, company) -> Acme, and
\* these are the values the profile holds once the message is processed.
C15_NameAndCompanyDetected ==
  \A w \in Workers :
    (ContextBuilt(w) /\ message[w] = M_NAME_COMPANY)
      => /\ detect_memory_triggers(message[w]) =
              << Trigger("identity", <<"name">>, <<"Alex">>),
                 Trigger("identity", <<"company">>, <<"Acme">>) >>
         /\ Trigger("identity", <<"name">>, <<"Alex">>) \in Range(profile)

\* C16: a run during which the semantic store, the embeddings or the profile
\* store is unavailable still invokes the model and ends with the model's
\* answer, not with an error text; the unavailable source adds nothing to the
\* context and nothing is written to it.
C16_MemoryOutageNeverPreventsAnswer ==
  \A w \in Workers :
    (pc[w] = "done" /\ outage[w] # "none")
      => /\ invocations[w] >= 1
         /\ aborted[w] = "no"
         /\ answer_content[w] \in {PostProcess(t, <<>>).answer : t \in ConcTexts}
         /\ outage[w] = "semantic" => run[w] \notin semantic_memory

\* the step processes w's inbound message for memory triggers
ProcessesMessage(w) ==
  /\ next_run' = next_run + 1
  /\ run'[w] = next_run'
  /\ outage'[w] # "profile"
  /\ TextLen(message'[w]) > 10

SameKey(r, t) == r.category = t.category /\ r.key = t.key

\* C17: the profile never holds two entries with one (category, key); processing
\* a message leaves, for every detected trigger, the one entry of its key with
\* the trigger's value, keeps the entries of all other keys, and processing the
\* same message once more changes nothing.
C17_ProfileKeyedUpsert ==
  /\ [](\A i, j \in 1..Len(profile) : SameKey(profile[i], profile[j]) => i = j)
  /\ [][\A w \in Workers :
          ProcessesMessage(w)
            => /\ \A t \in Range(detect_memory_triggers(message'[w])) :
                    /\ t \in Range(profile')
                    /\ Cardinality({i \in 1..Len(profile') : SameKey(profile'[i], t)}) = 1
               /\ \A r \in Range(profile) :
                    (\A t \in Range(detect_memory_triggers(message'[w])) : ~SameKey(r, t))
                      => r \in Range(profile')
               /\ process_message_for_memory(profile', message'[w]) = profile']_vars

\* "My name is Alex." was processed after "My name is Alex and I work at Acme":
\* the name entry was replaced, the company entry kept
C17_Witness ==
  /\ next_run = 2
  /\ message[1] = M_NAME
  /\ profile = << Trigger("identity", <<"name">>, <<"Alex">>),
                  Trigger("identity", <<"company">>, <<"Acme">>) >>

\* the step is a model invocation of w's run
InvokesModel(w) == invocations'[w] = invocations[w] + 1

\* C21: at the first model invocation of a run the system content has no
\* session-context block; at every later invocation with a non-empty digest it
\* is the assembled content followed by exactly one block, which holds the
\* current digest.
C21_OneCurrentSessionContextBlock ==
  [][\A w \in Workers :
       InvokesModel(w)
         => /\ system_content'[w].directive = system_content[w].directive
            /\ IF invocations'[w] = 1
               THEN system_content'[w].session_context = <<>>
               ELSE get_context_summary(calls, failed_patterns) # <<>>
                      => system_content'[w].session_context =
                           <<get_context_summary(calls, failed_patterns)>>]_vars

\* the positions of the successful records
SuccessfulCalls == {i \in 1..Len(calls) : calls[i].success}

\* the position of the m-th successful record
NthSuccess(m) ==
  CHOOSE i \in SuccessfulCalls : Cardinality({j \in SuccessfulCalls : j <= i}) = m

\* the lines of one kind, in their order
DigestLines(kind) ==
  SelectSeq(get_context_summary(calls, failed_patterns), LAMBDA l : l.kind = kind)

\* C22: the digest lists at most 5 failure entries, each naming a tool that has
\* failed since the last clear with the reason of a failed result, followed by
\* at most 3 success entries, which name the 3 most recent successful calls
\* (all of them when there are fewer) in call order; it is empty exactly when
\* no call is recorded.
C22_DigestIsBounded ==
  LET summary == get_context_summary(calls, failed_patterns)
      failed  == DigestLines("failed")
      worked  == DigestLines("worked")
      n       == Cardinality(SuccessfulCalls)
      shown   == IF n < 3 THEN n ELSE 3
  IN /\ Len(failed) <= 5
     /\ Len(failed) = (IF Len(failed_patterns) < 5 THEN Len(failed_patterns) ELSE 5)
     /\ \A i \in 1..Len(failed) :
          /\ failures[failed[i].tool] > 0
          /\ failed[i].text \in
               {_extract_failure_reason(r) :
                  r \in {x \in DigestResults(Call(failed[i].tool, MissingArgs)) :
                           ~ToolSuccess(x)}}
     /\ \A i, j \in 1..Len(summary) :
          (summary[i].kind = "worked" /\ summary[j].kind = "failed") => j < i
     /\ Len(worked) = shown
     /\ \A k \in 1..shown : worked[k].tool = calls[NthSuccess(n - shown + k)].tool_name
     /\ (summary = <<>>) <=> (calls = <<>>)

\* six different calls failed and four calls succeeded, the first of them of
\* another tool than the last three
C22_Witness ==
  /\ Len(failed_patterns) > 5
  /\ Cardinality(SuccessfulCalls) > 3
  /\ calls[NthSuccess(1)].tool_name \notin
       {DigestLines("worked")[k].tool : k \in 1..Len(DigestLines("worked"))}

\* C23: between add_to_history calls made one at a time, the stored history is
\* the last min(20, k) of the k turns appended since the last clear_history, in
\* the order in which they were appended.
C23_HistoryIsLastTwentyAppended ==
  ~InAddToHistory => StoredHistory = LastN(appended, HISTORY_LIMIT)

\* 22 turns were appended since the last clear and the two oldest are gone:
\* the turns of the first run stand at 17 and 18, those of the second at 19, 20
C23_Witness ==
  /\ ~InAddToHistory
  /\ Len(appended) = HISTORY_LIMIT + 2
  /\ Len(StoredHistory) = HISTORY_LIMIT
  /\ StoredHistory[HISTORY_LIMIT - 3].run = 1
  /\ StoredHistory[HISTORY_LIMIT].run = 2

\* all messages are handled
AllRunsOver == next_run = MaxConcRuns /\ \A w \in Workers : pc[w] = "done"

\* the stored history holds the user turn of run r with the assistant turn of
\* run r right behind it
ExchangeContiguous(r) ==
  \E i \in 1..(Len(StoredHistory) - 1) :
    /\ StoredHistory[i].run = r /\ StoredHistory[i].role = "user"
    /\ StoredHistory[i + 1].run = r /\ StoredHistory[i + 1].role = "assistant"

\* a turn of run r that was appended is not in the stored history
TurnLost(r) ==
  \E i \in 1..Len(appended) :
    /\ appended[i].run = r
    /\ \A j \in 1..Len(StoredHistory) : StoredHistory[j] # appended[i]

\* C24: add_to_history is not atomic for two runs of one user: what a thread
\* stores is the slice it took before, whatever was appended meanwhile, and a
\* turn appended through a reference to a list that is no longer the stored one
\* does not show in the stored history.
C24_HistoryRace ==
  [][\A w \in Workers :
       /\ (pc[w] = "ath_store" /\ pc'[w] = "ath_ret") => StoredHistory' = sliced[w]
       /\ (pc[w] = "ath_append" /\ pc'[w] = "ath_len" /\ history[w] # conversations)
            => StoredHistory' = StoredHistory]_vars

\* both runs are over, and the history lacks a turn of one of them although
\* only 22 turns were ever appended
C24_Witness ==
  /\ AllRunsOver
  /\ \E r \in 1..MaxConcRuns : TurnLost(r) /\ ~ExchangeContiguous(r)

\* both runs are over and the turns of the two runs alternate
C24_Interleaved ==
  /\ AllRunsOver
  /\ \A r \in 1..MaxConcRuns : ~TurnLost(r) /\ ~ExchangeContiguous(r)

\* C25: whatever the length of the inbound message, the matches of trigger
\* detection on it are in the profile store when the run comes to its first
\* model invocation.
C25_TriggersStoredBeforeFirstInvocation ==
  \A w \in Workers :
    (ContextBuilt(w) /\ invocations[w] = 0)
      => \A t \in Range(detect_memory_triggers(message[w])) : t \in Range(profile)

\* the run of w went through llm.py:367-411 and returned its answer
ReturnedAnswer(w) == RunOver(w) /\ aborted[w] = "no"

\* the assistant turns add_to_history appended for run r
AssistantTurns(r) ==
  {i \in 1..Len(appended) : appended[i].run = r /\ appended[i].role = "assistant"}

\* C26: a run that returns outside the error path returns a non-empty answer,
\* which is the content of the one assistant turn appended to the history for
\* it; when the final text is empty (the model replied "" or the iteration
\* budget ran out) the answer is the chart markers and the stock sentence if
\* chart files were captured, else the stock apology.
C26_AnswerIsNeverEmpty ==
  \A w \in Workers :
    ReturnedAnswer(w)
      => /\ answer_content[w] # <<>>
         /\ Cardinality(AssistantTurns(run[w])) = 1
         /\ \A i \in AssistantTurns(run[w]) : appended[i].content = answer_content[w]
         /\ final_response[w] = <<>>
              => answer_content[w] =
                   (IF chart_files[w] # <<>>
                    THEN [i \in 1..Len(chart_files[w]) |-> ChartMarker(chart_files[w][i])]
                           \o CHART_SENTENCE
                    ELSE APOLOGY)

\* the iteration budget ran out in a run that captured a chart file
C26_Witness ==
  \E w \in Workers :
    /\ ReturnedAnswer(w)
    /\ invocations[w] = max_iterations
    /\ final_response[w] = <<>>
    /\ chart_files[w] # <<>>
    /\ answer_content[w] = ChartMarkers(chart_files[w]) \o CHART_SENTENCE

\* C27: a call that is skipped because has_similar_failure returned a reason
\* leaves the session memory as it is (records, failure-pattern index, failure
\* count of the tool); a call that is answered without being skipped, a call to
\* an unknown tool included, adds exactly one record, which names its tool.
C27_SkippedCallIsNotRecorded ==
  [][\A w \in Workers :
       AnswersCall(w)
         => /\ tool_result'[w].skipped
                <=> Truthy(has_similar_failure(failed_patterns, tool_call'[w].name,
                                               tool_call'[w].args))
            /\ IF tool_result'[w].skipped
               THEN /\ calls' = calls
                    /\ failed_patterns' = failed_patterns
                    /\ get_failure_count(calls', tool_call'[w].name)
                         = get_failure_count(calls, tool_call'[w].name)
                    /\ failures' = failures
               ELSE /\ Len(calls') = Len(calls) + 1
                    /\ SubSeq(calls', 1, Len(calls)) = calls
                    /\ calls'[Len(calls')].tool_name = tool_call'[w].name]_vars

\* a call to an unknown tool was recorded, and the same call was then skipped
C27_Witness ==
  \E w \in Workers :
    /\ tool_result[w].skipped
    /\ tool_call[w].name \notin BoundTools
    /\ Len(calls) = 1
    /\ calls[1].tool_name = tool_call[w].name
    /\ failures[tool_call[w].name] = 1

\* process_message is at work on a message in thread w
Processing(w) == pc[w] \notin {"idle", "done"}

\* C28: the file context never outlives the message that set it: while a run is
\* at work, the stored file context is that of its own message or none, and
\* once process_message has finished for every message received, on whatever
\* path, the user has no stored file context.
C28_FileContextClearedAfterMessage ==
  /\ \A w \in Workers : Processing(w) => current_file_context \in {0, run[w]}
  /\ (\A w \in Workers : ~Processing(w)) => current_file_context = 0

(***************************************************************************)
(* Registration with an invite code: register_user (bot/database.py:34-71)  *)
(* run by the worker threads of main.py:21, each call on a connection of    *)
(* its own (get_db, bot/database.py:17-19).                                 *)
(***************************************************************************)

\* the variables of the agent, which registration leaves alone
agent_vars == <<conversations, lists, calls, failed_patterns, semantic_memory, next_run,
                next_chart, pc, run, iteration, messages, pending, chart_files,
                final_response, last_reply, thinking_content, answer_content, tool_call,
                tool_result, invoked, role, history, sliced, invocations, aborted,
                run_failed, delivered, failures, cleared, system_prompt, profile, message,
                system_content, outage, appended, current_file_context>>

\* /register calls each worker thread handles at most
MaxRegCalls == 2

\* the Telegram users who send /register
TelegramIds == {1, 2}

\* the codes they send, upper-cased by handlers.py:162
SentCodes == {"GT2024", "NOCODE"}

INVALID_CODE == "Invalid invite code."
CODE_USED == "This invite code has already been used."
REGISTERED == "Registration successful! You can now start chatting."
ALREADY_REGISTERED == "You are already registered."
\* sqlite3.OperationalError (database is locked) leaves register_user uncaught
DATABASE_LOCKED == "OperationalError"

\* a connection holds SQLite's write lock from its INSERT to its commit
HoldsWriteLock(t) == registration[t].pc \in {"update", "commit"}

\* handlers.py:156-163: /register CODE calls register_user
RegisterUser(t) ==
  /\ registration[t].pc \in {"idle", "returned"}
  /\ registration[t].calls < MaxRegCalls
  /\ \E telegram_id \in TelegramIds, invite_code \in SentCodes :
       registration' = [registration EXCEPT ![t] =
         [pc |-> "select", telegram_id |-> telegram_id, invite_code |-> invite_code,
          invite_id |-> 0, result |-> "", calls |-> @.calls + 1]]
  /\ UNCHANGED <<invite_codes, users, agent_vars, media_vars>>

\* database.py:40-51: SELECT id, is_used and the two early returns
RegSelect(t) ==
  /\ registration[t].pc = "select"
  /\ LET code == registration[t].invite_code
     IN registration' = [registration EXCEPT ![t] =
          IF code \notin DOMAIN invite_codes
            THEN [@ EXCEPT !.pc = "returned", !.result = INVALID_CODE]
          ELSE IF invite_codes[code].is_used
            THEN [@ EXCEPT !.pc = "returned", !.result = CODE_USED]
          ELSE [@ EXCEPT !.pc = "insert", !.invite_id = invite_codes[code].id]]
  /\ UNCHANGED <<invite_codes, users, agent_vars, media_vars>>

\* database.py:55-58 and 69-71: INSERT INTO users starts the write
\* transaction; telegram_id is unique (admin/api/database.py:47)
RegInsert(t) ==
  /\ registration[t].pc = "insert"
  /\ \A o \in Workers : ~HoldsWriteLock(o)
  /\ registration' = [registration EXCEPT ![t] =
       IF \E u \in users : u.telegram_id = registration[t].telegram_id
         THEN [@ EXCEPT !.pc = "returned", !.result = ALREADY_REGISTERED]
         ELSE [@ EXCEPT !.pc = "update"]]
  /\ UNCHANGED <<invite_codes, users, agent_vars, media_vars>>

\* the INSERT waits for another connection's transaction and gives up after
\* the timeout of sqlite3.connect
RegInsertLocked(t) ==
  /\ registration[t].pc = "insert"
  /\ \E o \in Workers : HoldsWriteLock(o)
  /\ registration' = [registration EXCEPT ![t] =
       [@ EXCEPT !.pc = "returned", !.result = DATABASE_LOCKED]]
  /\ UNCHANGED <<invite_codes, users, agent_vars, media_vars>>

\* database.py:61-64: UPDATE invite_codes SET is_used = 1 WHERE id = invite_id
RegUpdate(t) ==
  /\ registration[t].pc = "update"
  /\ registration' = [registration EXCEPT ![t].pc = "commit"]
  /\ UNCHANGED <<invite_codes, users, agent_vars, media_vars>>

\* database.py:66-68: the commit makes the row of the user and the update of
\* the invite code visible to the other connections
RegCommit(t) ==
  /\ registration[t].pc = "commit"
  /\ users' = users \cup {[telegram_id |-> registration[t].telegram_id,
                           invite_id |-> registration[t].invite_id]}
  /\ invite_codes' = [c \in DOMAIN invite_codes |->
       IF invite_codes[c].id = registration[t].invite_id
         THEN [invite_codes[c] EXCEPT !.is_used = TRUE,
                                      !.telegram_id = registration[t].telegram_id]
         ELSE invite_codes[c]]
  /\ registration' = [registration EXCEPT ![t] =
       [@ EXCEPT !.pc = "returned", !.result = REGISTERED]]
  /\ UNCHANGED <<agent_vars, media_vars>>

RegStep(t) ==
  \/ RegisterUser(t)
  \/ RegSelect(t)
  \/ RegInsert(t)
  \/ RegInsertLocked(t)
  \/ RegUpdate(t)
  \/ RegCommit(t)

InitReg == InitWith(<<>>)

NextReg == \E t \in Workers : RegStep(t)

SpecReg == InitReg /\ [][NextReg]_vars

\* the users an invite code registered
RegisteredWith(code) == {u \in users : u.invite_id = invite_codes[code].id}

\* C29: an invite code registers at most one user, whatever the interleaving
\* of the register_user calls of the worker threads: no two rows of users
\* carry the id of one invite code, and no two calls with one code have
\* returned success.
C29_InviteRegistersOneUser ==
  \A code \in DOMAIN invite_codes :
    /\ Cardinality(RegisteredWith(code)) <= 1
    /\ Cardinality({t \in Workers : /\ registration[t].invite_code = code
                                    /\ registration[t].result = REGISTERED}) <= 1

(***************************************************************************)
(* Media-group batching (main.py:23-73): the polling thread adds the       *)
(* messages of a group to media_groups and restarts a 0.5 s Timer; the      *)
(* Timer's thread runs process_media_group. No lock guards the two          *)
(* dictionaries, so the statements of the two threads interleave.           *)
(***************************************************************************)

\* main.py:46-54: the next update is a message with a media_group_id; offset
\* has moved past it (main.py:49)
PollReceive ==
  /\ polling.pc = "poll"
  /\ polling.received < MaxMediaMessages
  /\ \E g \in MediaGroupIds :
       polling' = [polling EXCEPT !.pc = "check", !.received = @ + 1,
                                  !.media_group_id = g, !.list = 0]
  /\ UNCHANGED <<media_groups, media_group_timers, media_lists, timers, submitted,
                 agent_vars, reg_vars>>

\* main.py:56-57: a group with no entry gets a new, empty list
PollCreate ==
  /\ polling.pc = "check"
  /\ media_groups' = [media_groups EXCEPT ![polling.media_group_id] =
       IF @ = 0 THEN polling.received ELSE @]
  /\ polling' = [polling EXCEPT !.pc = "lookup"]
  /\ UNCHANGED <<media_group_timers, media_lists, timers, submitted, agent_vars, reg_vars>>

\* main.py:58, the subscript media_groups[media_group_id]: a KeyError when the
\* entry is gone, caught at main.py:69-71 with the message dropped
PollLookup ==
  /\ polling.pc = "lookup"
  /\ polling' = IF media_groups[polling.media_group_id] = 0
                  THEN [polling EXCEPT !.pc = "poll"]
                  ELSE [polling EXCEPT !.pc = "append",
                                       !.list = media_groups[polling.media_group_id]]
  /\ UNCHANGED <<media_groups, media_group_timers, media_lists, timers, submitted,
                 agent_vars, reg_vars>>

\* main.py:58, .append(msg) on the list object found
PollAppend ==
  /\ polling.pc = "append"
  /\ media_lists' = [media_lists EXCEPT ![polling.list] = Append(@, polling.received)]
  /\ polling' = [polling EXCEPT !.pc = "timer_check"]
  /\ UNCHANGED <<media_groups, media_group_timers, timers, submitted, agent_vars, reg_vars>>

\* main.py:61: if media_group_id in media_group_timers
PollTimerCheck ==
  /\ polling.pc = "timer_check"
  /\ polling' = [polling EXCEPT !.pc =
       IF media_group_timers[polling.media_group_id] # 0 THEN "cancel" ELSE "start"]
  /\ UNCHANGED <<media_groups, media_group_timers, media_lists, timers, submitted,
                 agent_vars, reg_vars>>

\* main.py:62: media_group_timers[media_group_id].cancel(); a KeyError when
\* the entry is gone (main.py:69-71), and no effect on a Timer whose function
\* has started
PollCancel ==
  /\ polling.pc = "cancel"
  /\ LET k == media_group_timers[polling.media_group_id]
     IN IF k = 0
          THEN /\ polling' = [polling EXCEPT !.pc = "poll"]
               /\ UNCHANGED timers
          ELSE /\ polling' = [polling EXCEPT !.pc = "start"]
               /\ timers' = [timers EXCEPT ![k].pc =
                    IF @ = "waiting" THEN "cancelled" ELSE @]
  /\ UNCHANGED <<media_groups, media_group_timers, media_lists, submitted,
                 agent_vars, reg_vars>>

\* main.py:63-65: a new Timer is stored and started
PollStart ==
  /\ polling.pc = "start"
  /\ timers' = [timers EXCEPT ![polling.received] =
       [pc |-> "waiting", group_id |-> polling.media_group_id, messages |-> 0]]
  /\ media_group_timers' =
       [media_group_timers EXCEPT ![polling.media_group_id] = polling.received]
  /\ polling' = [polling EXCEPT !.pc = "poll"]
  /\ UNCHANGED <<media_groups, media_lists, submitted, agent_vars, reg_vars>>

\* threading.Timer: 0.5 s after start() the thread calls process_media_group,
\* unless cancel() came first
TimerFires(k) ==
  /\ timers[k].pc = "waiting"
  /\ timers' = [timers EXCEPT ![k].pc = "check"]
  /\ UNCHANGED <<media_groups, media_group_timers, media_lists, polling, submitted,
                 agent_vars, reg_vars>>

\* main.py:29: if group_id in media_groups
TimerCheck(k) ==
  /\ timers[k].pc = "check"
  /\ timers' = [timers EXCEPT ![k].pc =
       IF media_groups[timers[k].group_id] # 0 THEN "pop" ELSE "done"]
  /\ UNCHANGED <<media_groups, media_group_timers, media_lists, polling, submitted,
                 agent_vars, reg_vars>>

\* main.py:30: messages = media_groups.pop(group_id); a KeyError ends the
\* thread when another Timer took the entry
TimerPop(k) ==
  /\ timers[k].pc = "pop"
  /\ LET g == timers[k].group_id
     IN IF media_groups[g] = 0
          THEN /\ timers' = [timers EXCEPT ![k].pc = "done"]
               /\ UNCHANGED media_groups
          ELSE /\ timers' = [timers EXCEPT ![k].pc = "pop_timer",
                                           ![k].messages = media_groups[g]]
               /\ media_groups' = [media_groups EXCEPT ![g] = 0]
  /\ UNCHANGED <<media_group_timers, media_lists, polling, submitted, agent_vars, reg_vars>>

\* main.py:31: media_group_timers.pop(group_id, None)
TimerPopTimer(k) ==
  /\ timers[k].pc = "pop_timer"
  /\ media_group_timers' = [media_group_timers EXCEPT ![timers[k].group_id] = 0]
  /\ timers' = [timers EXCEPT ![k].pc = "merge"]
  /\ UNCHANGED <<media_groups, media_lists, polling, submitted, agent_vars, reg_vars>>

\* main.py:32-42: the messages of the list are merged into the first one and
\* the merged message is submitted to the worker pool
TimerSubmit(k) ==
  /\ timers[k].pc = "merge"
  /\ submitted' = IF media_lists[timers[k].messages] # <<>>
                    THEN Append(submitted, media_lists[timers[k].messages])
                    ELSE submitted
  /\ timers' = [timers EXCEPT ![k].pc = "done"]
  /\ UNCHANGED <<media_groups, media_group_timers, media_lists, polling, agent_vars, reg_vars>>

process_media_group(k) ==
  \/ TimerCheck(k)
  \/ TimerPop(k)
  \/ TimerPopTimer(k)
  \/ TimerSubmit(k)

PollStep ==
  \/ PollReceive
  \/ PollCreate
  \/ PollLookup
  \/ PollAppend
  \/ PollTimerCheck
  \/ PollCancel
  \/ PollStart

InitMedia == InitWith(<<>>)

NextMedia ==
  \/ PollStep
  \/ \E k \in MediaIds : TimerFires(k) \/ process_media_group(k)

SpecMedia == InitMedia /\ [][NextMedia]_vars

\* the polling thread waits for updates and no Timer is pending or running
MediaQuiescent ==
  /\ polling.pc = "poll"
  /\ \A k \in MediaIds : timers[k].pc \in {"none", "cancelled", "done"}

\* the merged messages that include message m
MergedWith(m) ==
  {i \in DOMAIN submitted : \E j \in DOMAIN submitted[i] : submitted[i][j] = m}

\* C30: media-group batching loses and duplicates nothing: once the polling
\* thread is back at get_updates and every Timer has run or was cancelled,
\* each message received with a media_group_id is in exactly one of the
\* merged messages submitted to the worker pool; and at no time is a message
\* in two of them.
C30_BatchingLosesNothing ==
  /\ \A m \in 1..polling.received : Cardinality(MergedWith(m)) <= 1
  /\ MediaQuiescent => \A m \in 1..polling.received : Cardinality(MergedWith(m)) = 1

====
